---- MODULE Spec2Model ----
(***************************************************************************)
(* Row cache, mutation coordinator and change listener of the hospitals    *)
(* dashboard: the Page component of src/app/page.tsx and the older Home    *)
(* component of src/unnamed/part_002, both talking to one remote table.    *)
(*                                                                         *)
(* A remote call is three steps: the handler issues it (the task is        *)
(* "sent"), the store serves it (the task is "replied" and carries the     *)
(* answer), the handler's continuation runs.  Calls are served and         *)
(* answered in any order.                                                  *)
(***************************************************************************)
EXTENDS Integers, Sequences, FiniteSets, TLC

\* ------------------------------------------------------------------ bounds
MaxTasks == 2       \* asynchronous handlers in flight at once
MaxOps == 2         \* user gestures and foreign writes in one session
MaxEvents == 1      \* change notifications not yet delivered

\* ------------------------------------------------------------------ values
Ids == {1, 2}       \* ids of the remote table; id order is name order
Null == "null"      \* JavaScript null
Absent == "absent"  \* the row has no such property
STATUSES == <<"new", "queued", "contacted", "replied", "won", "lost", "bad">>
HomeStatusInputs == {STATUSES[2], STATUSES[5]}
ForeignStatuses == {"closed"}

VARIABLES
    view,                   \* which component is mounted: "page" or "home"
    db,                     \* remote table hospitals: id -> [live, status, cold_emailed]
    coldColumn,             \* whether the remote schema has the cold_emailed column
    subscribed,             \* whether the store holds a subscription of this view
    events,                 \* change notifications sent and not yet delivered
    rows,                   \* useState rows: the Row Cache
    loading,                \* useState loading
    selected,               \* useState selected: the ids mapped to true
    hasColdEmailedColumn,   \* useState hasColdEmailedColumn
    channelRef,             \* useRef channelRef: "none" or "handle" (either API's)
    effect,                 \* the mount effect: "idle", "load", "subscribe", "done"
    mounted,                \* the component is mounted (cleanup has not run)
    tasks,                  \* the asynchronous handlers in flight, in call order
    out,                    \* the toasts pushed by the latest step
    ops,                    \* gestures and foreign writes so far
    q,                      \* useState q: the search text, a string
    city,                   \* useState city: the city filter
    status,                 \* useState status (Home: statusFilter)
    sortKey,                \* useState sortKey
    sortDir,                \* useState sortDir: "asc" or "desc"
    filtered,               \* useMemo filtered: the projected list as rendered
    csv,                    \* importCSV: the parsed records not yet handled
    resolved,               \* importCSV: its promise is "none", "pending", "resolved"
    env,                    \* the server's environment: which variables are set
    route,                  \* which PATCH definition serves /api/hospitals
    serverClient,           \* _serverClient of lib/supabase-server: created or not
    request,                \* the request the route handler is working on
    response                \* the last response of the route

vars == <<view, db, coldColumn, subscribed, events, rows, loading, selected,
          hasColdEmailedColumn, channelRef, effect, mounted, tasks, out, ops,
          q, city, status, sortKey, sortDir, filtered, csv, resolved,
          env, route, serverClient, request, response>>

schema == <<view, coldColumn>>
store == <<db, events>>
listener == <<subscribed, channelRef, effect, mounted>>
projection == <<q, city, status, sortKey, sortDir, filtered>>
import == <<csv, resolved>>
server == <<env, route, serverClient, request, response>>
\* what the handlers of the row cache never touch
elsewhere == <<projection, import, server>>

\* ------------------------------------------------------------------ remote table
NoRow == [live |-> FALSE, status |-> Null, cold_emailed |-> Absent]

Row(d, id) == [id |-> id, status |-> d[id].status, cold_emailed |-> d[id].cold_emailed]

RECURSIVE SelectFrom(_, _)
SelectFrom(d, n) ==
    IF n > Cardinality(Ids) THEN <<>>
    ELSE IF d[n].live THEN <<Row(d, n)>> \o SelectFrom(d, n + 1)
    ELSE SelectFrom(d, n + 1)

\* select('*').order('name'): the live rows, by name
SelectAll(d) == SelectFrom(d, 1)

LiveIds(d) == {id \in Ids : d[id].live}

\* the notifications the store sends for n changed rows
Notify(n) == IF subscribed THEN events + n ELSE events

CanNotify(n) == subscribed => events + n <= MaxEvents

\* ------------------------------------------------------------------ tasks
\* the frame of a handler suspended at an await: its arguments (ids, current),
\* its locals (target, prev) and, once the store has answered, the answer
Task(kind, owner, ids, current, target, prev) ==
    [kind |-> kind, owner |-> owner, pc |-> "sent", ids |-> ids, current |-> current,
     target |-> target, prev |-> prev, res |-> "none", data |-> <<>>]

\* fetchRows() called from an event handler or a callback
FetchTask(owner) == Task("fetch", owner, {}, Null, Null, Null)

\* await fetchRows() inside a mutation handler: the handler's frame stays, at
\* the select
Reload(t) == [t EXCEPT !.kind = "fetch", !.owner = t.kind, !.pc = "sent",
                       !.res = "none", !.data = <<>>]

\* push({ type, text })
Toast(type, text) == <<[type |-> type, text |-> text]>>

Remove(s, i) == SubSeq(s, 1, i - 1) \o SubSeq(s, i + 1, Len(s))

Room == Len(tasks) < MaxTasks

CacheIds == {rows[i].id : i \in DOMAIN rows}

\* rows.find((r) => r.id === id)
Find(rs, id) == rs[CHOOSE i \in DOMAIN rs : rs[i].id = id /\ \A j \in 1..(i - 1) : rs[j].id # id]

\* a user event reaches the mounted component; the effect's continuation after
\* its first load runs before any further event
Gesture == mounted /\ effect \notin {"idle", "subscribe"} /\ ops < MaxOps

\* ------------------------------------------------------------------ Page: fetchRows
\* fetchRows up to its first await: setLoading(true), the select is sent
fetchRowsStart(owner) ==
    /\ loading' = TRUE
    /\ tasks' = Append(tasks, FetchTask(owner))

\* the store answers a select: rows, an error, or the call throws
ServeFetch(i, r) ==
    /\ i \in DOMAIN tasks
    /\ tasks[i].kind = "fetch" /\ tasks[i].pc = "sent"
    /\ tasks' = [tasks EXCEPT ![i] = [@ EXCEPT !.pc = "replied", !.res = r,
                     !.data = IF r = "ok" THEN SelectAll(db) ELSE <<>>]]
    /\ out' = <<>>
    /\ UNCHANGED <<schema, elsewhere, store, listener, rows, loading, selected,
                   hasColdEmailedColumn, ops>>

\* fetched.every(...) in place of fetched.some(...)
HasColdPropertyEvery(fetched) == \A i \in DOMAIN fetched : fetched[i].cold_emailed # Absent

\* fetched.some((r) => hasOwnProperty.call(r, 'cold_emailed'))
HasColdProperty(fetched) == \E i \in DOMAIN fetched : fetched[i].cold_emailed # Absent

\* fetchRows after the await: setRows and the flag on success, a toast otherwise,
\* setLoading(false) in every case; the mount effect goes on to subscribe
fetchRowsReturn(i) ==
    /\ view = "page"
    /\ i \in DOMAIN tasks
    /\ tasks[i].kind = "fetch" /\ tasks[i].pc = "replied"
    /\ IF tasks[i].res = "ok"
       THEN /\ rows' = tasks[i].data
            /\ hasColdEmailedColumn' = HasColdProperty(tasks[i].data)
            /\ out' = <<>>
       ELSE /\ out' = Toast("error", "Failed to fetch rows")
            /\ UNCHANGED <<rows, hasColdEmailedColumn>>
    /\ loading' = FALSE
    /\ tasks' = Remove(tasks, i)
    /\ effect' = IF tasks[i].owner = "mount" THEN "subscribe" ELSE effect
    /\ UNCHANGED <<schema, elsewhere, store, subscribed, channelRef, mounted, selected, ops>>

\* the Refresh button and the Refresh entry of the Controls menu
Refresh ==
    /\ view = "page" /\ Gesture /\ Room
    /\ fetchRowsStart("refresh")
    /\ out' = <<>>
    /\ ops' = ops + 1
    /\ UNCHANGED <<schema, elsewhere, store, listener, rows, selected, hasColdEmailedColumn>>

\* ------------------------------------------------------------------ Page: mount effect
\* the effect body up to its first await: fetchRows()
Mount ==
    /\ view = "page" /\ effect = "idle" /\ Room
    /\ fetchRowsStart("mount")
    /\ effect' = "load"
    /\ out' = <<>>
    /\ UNCHANGED <<schema, elsewhere, store, subscribed, channelRef, mounted, rows, selected,
                   hasColdEmailedColumn, ops>>

\* the effect after the first load with no fallback: a primary attempt that
\* throws leaves no subscription
SubscribeWithoutFallback(how) ==
    /\ view = "page" /\ effect = "subscribe"
    /\ channelRef' = IF how = "channel" THEN "handle" ELSE channelRef
    /\ subscribed' = (how = "channel" \/ subscribed)
    /\ effect' = "done"
    /\ out' = <<>>
    /\ UNCHANGED <<schema, elsewhere, store, mounted, rows, loading, selected,
                   hasColdEmailedColumn, tasks, ops>>

\* after the first load: channel().on().subscribe(), else the legacy
\* from().on().subscribe(), else nothing; no branch looks at `mounted`
Subscribe(how) ==
    /\ view = "page" /\ effect = "subscribe"
    /\ channelRef' = IF how = "none" THEN channelRef ELSE "handle"
    /\ subscribed' = (how # "none" \/ subscribed)
    /\ effect' = "done"
    /\ out' = <<>>
    /\ UNCHANGED <<schema, elsewhere, store, mounted, rows, loading, selected,
                   hasColdEmailedColumn, tasks, ops>>

\* the effect's cleanup: unsubscribe what channelRef holds
Cleanup ==
    /\ view = "page" /\ Gesture
    /\ mounted' = FALSE
    /\ subscribed' = IF channelRef # "none" THEN FALSE ELSE subscribed
    /\ out' = <<>>
    /\ ops' = ops + 1
    /\ UNCHANGED <<schema, elsewhere, store, channelRef, effect, rows, loading, selected,
                   hasColdEmailedColumn, tasks>>

\* the realtime callback: fetchRows() on any change event
OnChange ==
    /\ view = "page" /\ subscribed /\ events > 0 /\ Room
    /\ events' = events - 1
    /\ fetchRowsStart("realtime")
    /\ out' = <<>>
    /\ UNCHANGED <<schema, elsewhere, db, listener, rows, selected, hasColdEmailedColumn, ops>>

\* ------------------------------------------------------------------ other writers
ForeignUpdate(id, s) ==
    /\ ops < MaxOps /\ effect # "idle"
    /\ db[id].live /\ db[id].status # s
    /\ CanNotify(1)
    /\ db' = [db EXCEPT ![id].status = s]
    /\ events' = Notify(1)
    /\ out' = <<>>
    /\ ops' = ops + 1
    /\ UNCHANGED <<schema, elsewhere, listener, rows, loading, selected, hasColdEmailedColumn, tasks>>

ForeignDelete(id) ==
    /\ ops < MaxOps /\ effect # "idle"
    /\ db[id].live
    /\ CanNotify(1)
    /\ db' = [db EXCEPT ![id] = NoRow]
    /\ events' = Notify(1)
    /\ out' = <<>>
    /\ ops' = ops + 1
    /\ UNCHANGED <<schema, elsewhere, listener, rows, loading, selected, hasColdEmailedColumn, tasks>>

\* ------------------------------------------------------------------ Page: selection
\* toggleSelection on the checkbox of a rendered row
toggleSelection(id) ==
    /\ view = "page" /\ Gesture
    /\ id \in CacheIds
    /\ selected' = IF id \in selected THEN selected \ {id} ELSE selected \cup {id}
    /\ out' = <<>>
    /\ ops' = ops + 1
    /\ UNCHANGED <<schema, elsewhere, store, listener, rows, loading, hasColdEmailedColumn, tasks>>

\* the select-all checkbox
selectAll(checked) ==
    /\ view = "page" /\ Gesture
    /\ selected' = IF checked THEN CacheIds ELSE {}
    /\ selected' # selected
    /\ out' = <<>>
    /\ ops' = ops + 1
    /\ UNCHANGED <<schema, elsewhere, store, listener, rows, loading, hasColdEmailedColumn, tasks>>

\* ------------------------------------------------------------------ Page: mutations
\* a map that writes the status of every entry, targeted or not
WithStatusEvery(rs, ids, s) == [i \in DOMAIN rs |-> [rs[i] EXCEPT !.status = s]]

\* prevRows.map((r) => (ids.includes(r.id) ? { ...r, status: s } : r))
WithStatus(rs, ids, s) ==
    [i \in DOMAIN rs |-> IF rs[i].id \in ids THEN [rs[i] EXCEPT !.status = s] ELSE rs[i]]

\* prevRows.map((r) => (ids.includes(r.id) ? { ...r, cold_emailed: c } : r))
WithCold(rs, ids, c) ==
    [i \in DOMAIN rs |-> IF rs[i].id \in ids THEN [rs[i] EXCEPT !.cold_emailed = c] ELSE rs[i]]

\* a toggle that takes 'reached' for closed as well
StatusTargetReopensReached(currentStatus) ==
    IF currentStatus \in {"closed", "reached"} THEN "new" ELSE "closed"

\* const target = isClosed ? 'new' : 'closed'
StatusTarget(currentStatus) == IF currentStatus = "closed" THEN "new" ELSE "closed"

\* rows.find((r) => r.id === id)?.status ?? null
PrevStatus(rs, id) == Find(rs, id).status

\* const target = !current
ColdTarget(current) == IF current = "true" THEN "false" ELSE "true"

\* rows.find((r) => r.id === id)?.cold_emailed ?? false
PrevCold(rs, id) ==
    LET c == Find(rs, id).cold_emailed IN IF c \in {Null, Absent} THEN "false" ELSE c

\* the optimistic setRows left out
OptimisticSkipped(rs, kind, ids, target) == rs

\* the optimistic setRows of a mutation
Optimistic(rs, kind, ids, target) ==
    IF kind \in {"toggleStatus", "bulkSetStatus"} THEN WithStatus(rs, ids, target)
    ELSE WithCold(rs, ids, target)

\* the setRows of the failure branch of a single-row mutation
Rollback(rs, kind, ids, prev) ==
    IF kind = "toggleStatus" THEN WithStatus(rs, ids, prev) ELSE WithCold(rs, ids, prev)

PageMutations == {"toggleStatus", "toggleColdEmail", "bulkSetStatus", "bulkToggleColdEmail"}
ColdMutations == {"toggleColdEmail", "bulkToggleColdEmail"}
BulkMutations == {"bulkSetStatus", "bulkToggleColdEmail"}

\* toggleStatus(r.id, r.status) up to its first await
toggleStatus(id) ==
    /\ view = "page" /\ Gesture /\ Room
    /\ id \in CacheIds
    /\ LET target == StatusTarget(Find(rows, id).status)
           prev == PrevStatus(rows, id)
       IN  /\ rows' = Optimistic(rows, "toggleStatus", {id}, target)
           /\ tasks' = Append(tasks, Task("toggleStatus", "user", {id},
                                          Find(rows, id).status, target, prev))
    /\ out' = <<>>
    /\ ops' = ops + 1
    /\ UNCHANGED <<schema, elsewhere, store, listener, loading, selected, hasColdEmailedColumn>>

\* toggleColdEmail without its guard on hasColdEmailedColumn
toggleColdEmailUnguarded(id) ==
    /\ view = "page" /\ Gesture /\ Room
    /\ id \in CacheIds
    /\ LET target == ColdTarget(Find(rows, id).cold_emailed)
           prev == PrevCold(rows, id)
       IN  /\ rows' = Optimistic(rows, "toggleColdEmail", {id}, target)
           /\ tasks' = Append(tasks, Task("toggleColdEmail", "user", {id},
                                          Find(rows, id).cold_emailed, target, prev))
           /\ out' = <<>>
    /\ ops' = ops + 1
    /\ UNCHANGED <<schema, elsewhere, store, listener, loading, selected, hasColdEmailedColumn>>

\* toggleColdEmail(r.id, r.cold_emailed) up to its first await, or its guard
toggleColdEmail(id) ==
    /\ view = "page" /\ Gesture /\ Room
    /\ id \in CacheIds
    /\ IF ~hasColdEmailedColumn
       THEN /\ out' = Toast("error", "cold_emailed column missing")
            /\ UNCHANGED <<rows, tasks>>
       ELSE LET target == ColdTarget(Find(rows, id).cold_emailed)
                prev == PrevCold(rows, id)
            IN  /\ rows' = Optimistic(rows, "toggleColdEmail", {id}, target)
                /\ tasks' = Append(tasks, Task("toggleColdEmail", "user", {id},
                                               Find(rows, id).cold_emailed, target, prev))
                /\ out' = <<>>
    /\ ops' = ops + 1
    /\ UNCHANGED <<schema, elsewhere, store, listener, loading, selected, hasColdEmailedColumn>>

\* Object.keys(selected).filter((k) => selected[k])
SelectedIds == selected

\* bulkSetStatus('closed') from the Controls menu, up to its first await
bulkSetStatus(target) ==
    /\ view = "page" /\ Gesture /\ Room
    /\ IF SelectedIds = {}
       THEN /\ out' = Toast("info", "Select rows first")
            /\ UNCHANGED <<rows, tasks>>
       ELSE /\ rows' = Optimistic(rows, "bulkSetStatus", SelectedIds, target)
            /\ tasks' = Append(tasks, Task("bulkSetStatus", "user", SelectedIds,
                                           Null, target, Null))
            /\ out' = <<>>
    /\ ops' = ops + 1
    /\ UNCHANGED <<schema, elsewhere, store, listener, loading, selected, hasColdEmailedColumn>>

\* bulkToggleColdEmail(markAs) from the Controls menu, up to its first await
bulkToggleColdEmail(markAs) ==
    /\ view = "page" /\ Gesture /\ Room
    /\ IF ~hasColdEmailedColumn
       THEN /\ out' = Toast("error", "cold_emailed column missing")
            /\ UNCHANGED <<rows, tasks>>
       ELSE IF SelectedIds = {}
       THEN /\ out' = Toast("info", "Select rows first")
            /\ UNCHANGED <<rows, tasks>>
       ELSE /\ rows' = Optimistic(rows, "bulkToggleColdEmail", SelectedIds, markAs)
            /\ tasks' = Append(tasks, Task("bulkToggleColdEmail", "user", SelectedIds,
                                           Null, markAs, Null))
            /\ out' = <<>>
    /\ ops' = ops + 1
    /\ UNCHANGED <<schema, elsewhere, store, listener, loading, selected, hasColdEmailedColumn>>

\* an update scoped to the ids selected when the store serves it
UpdatedCurrentSelection(d, kind, ids, target) ==
    [id \in Ids |->
        IF id \in selected /\ d[id].live
        THEN IF kind \in ColdMutations THEN [d[id] EXCEPT !.cold_emailed = target]
             ELSE [d[id] EXCEPT !.status = target]
        ELSE d[id]]

\* the table after update(patch).eq('id', id) or .in('id', ids)
Updated(d, kind, ids, target) ==
    [id \in Ids |->
        IF id \in ids /\ d[id].live
        THEN IF kind \in ColdMutations THEN [d[id] EXCEPT !.cold_emailed = target]
             ELSE [d[id] EXCEPT !.status = target]
        ELSE d[id]]

\* the store answers an update of the Page: applied, refused, or the call throws;
\* an update of a column the schema lacks is refused
ServeUpdate(i, r) ==
    /\ i \in DOMAIN tasks
    /\ tasks[i].kind \in PageMutations /\ tasks[i].pc = "sent"
    /\ r = "ok" => (tasks[i].kind \in ColdMutations => coldColumn)
    /\ LET hit == Cardinality(tasks[i].ids \cap LiveIds(db))
       IN  IF r = "ok"
           THEN /\ CanNotify(hit)
                /\ db' = Updated(db, tasks[i].kind, tasks[i].ids, tasks[i].target)
                /\ events' = Notify(hit)
           ELSE UNCHANGED <<db, events>>
    /\ tasks' = [tasks EXCEPT ![i] = [@ EXCEPT !.pc = "replied", !.res = r]]
    /\ out' = <<>>
    /\ UNCHANGED <<schema, elsewhere, listener, rows, loading, selected, hasColdEmailedColumn, ops>>

\* toggleStatus after the await: a toast on success; a toast, the rollback and
\* fetchRows() on an error or an exception
toggleStatusReturn(i) ==
    /\ i \in DOMAIN tasks
    /\ tasks[i].kind = "toggleStatus" /\ tasks[i].pc = "replied"
    /\ IF tasks[i].res = "ok"
       THEN /\ out' = Toast("success", "Status updated")
            /\ tasks' = Remove(tasks, i)
            /\ UNCHANGED <<rows, loading>>
       ELSE /\ out' = Toast("error", "Failed to update status")
            /\ rows' = Rollback(rows, tasks[i].kind, tasks[i].ids, tasks[i].prev)
            /\ loading' = TRUE
            /\ tasks' = [tasks EXCEPT ![i] = Reload(@)]
    /\ UNCHANGED <<schema, elsewhere, store, listener, selected, hasColdEmailedColumn, ops>>

\* toggleColdEmail after the await: a toast and the audit insert on success; a
\* toast, the rollback and fetchRows() on an error or an exception
toggleColdEmailReturn(i) ==
    /\ i \in DOMAIN tasks
    /\ tasks[i].kind = "toggleColdEmail" /\ tasks[i].pc = "replied"
    /\ IF tasks[i].res = "ok"
       THEN /\ out' = Toast("success", IF tasks[i].target = "true"
                                        THEN "Marked cold-emailed"
                                        ELSE "Unmarked cold-emailed")
            /\ tasks' = [tasks EXCEPT ![i] = [@ EXCEPT !.pc = "audit"]]
            /\ UNCHANGED <<rows, loading>>
       ELSE /\ out' = Toast("error", "Failed to update cold-emailed")
            /\ rows' = Rollback(rows, tasks[i].kind, tasks[i].ids, tasks[i].prev)
            /\ loading' = TRUE
            /\ tasks' = [tasks EXCEPT ![i] = Reload(@)]
    /\ UNCHANGED <<schema, elsewhere, store, listener, selected, hasColdEmailedColumn, ops>>

\* bulkSetStatus after the await, with a per-row rollback before the reload
bulkSetStatusReturnRollsBack(i) ==
    /\ i \in DOMAIN tasks
    /\ tasks[i].kind = "bulkSetStatus" /\ tasks[i].pc = "replied"
    /\ IF tasks[i].res = "ok"
       THEN /\ out' = Toast("success", "Updated rows")
            /\ selected' = {}
            /\ tasks' = Remove(tasks, i)
            /\ UNCHANGED <<rows, loading>>
       ELSE /\ out' = Toast("error", "Failed to update selected rows")
            /\ rows' = WithStatus(rows, tasks[i].ids, "new")
            /\ loading' = TRUE
            /\ tasks' = [tasks EXCEPT ![i] = Reload(@)]
            /\ UNCHANGED selected
    /\ UNCHANGED <<schema, elsewhere, store, listener, hasColdEmailedColumn, ops>>

\* bulkSetStatus after the await: setSelected({}) and a toast on success; a toast
\* and fetchRows() on an error or an exception
bulkSetStatusReturn(i) ==
    /\ i \in DOMAIN tasks
    /\ tasks[i].kind = "bulkSetStatus" /\ tasks[i].pc = "replied"
    /\ IF tasks[i].res = "ok"
       THEN /\ out' = Toast("success", "Updated rows")
            /\ selected' = {}
            /\ tasks' = Remove(tasks, i)
            /\ UNCHANGED loading
       ELSE /\ out' = Toast("error", "Failed to update selected rows")
            /\ loading' = TRUE
            /\ tasks' = [tasks EXCEPT ![i] = Reload(@)]
            /\ UNCHANGED selected
    /\ UNCHANGED <<schema, elsewhere, store, listener, rows, hasColdEmailedColumn, ops>>

\* bulkToggleColdEmail after the await: the audit insert on success; a toast and
\* fetchRows() on an error or an exception
bulkToggleColdEmailReturn(i) ==
    /\ i \in DOMAIN tasks
    /\ tasks[i].kind = "bulkToggleColdEmail" /\ tasks[i].pc = "replied"
    /\ IF tasks[i].res = "ok"
       THEN /\ out' = <<>>
            /\ tasks' = [tasks EXCEPT ![i] = [@ EXCEPT !.pc = "audit"]]
            /\ UNCHANGED loading
       ELSE /\ out' = Toast("error", IF tasks[i].res = "error"
                                      THEN "Failed to update cold-emailed"
                                      ELSE "Failed to update selected rows")
            /\ loading' = TRUE
            /\ tasks' = [tasks EXCEPT ![i] = Reload(@)]
    /\ UNCHANGED <<schema, elsewhere, store, listener, rows, selected, hasColdEmailedColumn, ops>>

\* the insert into cold_emails, with its failure surfaced as a failed mutation
auditReturnSurfaces(i, r) ==
    /\ i \in DOMAIN tasks
    /\ tasks[i].pc = "audit"
    /\ IF r = "ok"
       THEN /\ tasks' = Remove(tasks, i)
            /\ IF tasks[i].kind = "bulkToggleColdEmail"
               THEN selected' = {} /\ out' = Toast("success", "rows updated")
               ELSE out' = <<>> /\ UNCHANGED selected
            /\ UNCHANGED <<rows, loading>>
       ELSE /\ out' = Toast("error", "Failed to update cold-emailed")
            /\ rows' = Rollback(rows, tasks[i].kind, tasks[i].ids, tasks[i].prev)
            /\ loading' = TRUE
            /\ tasks' = [tasks EXCEPT ![i] = Reload(@)]
            /\ UNCHANGED selected
    /\ UNCHANGED <<schema, elsewhere, store, listener, hasColdEmailedColumn, ops>>

\* the insert into cold_emails is over, whatever its outcome: the single-row
\* handler ends; the bulk handler clears the selection and pushes its toast
auditReturn(i, r) ==
    /\ i \in DOMAIN tasks
    /\ tasks[i].pc = "audit"
    /\ tasks' = Remove(tasks, i)
    /\ IF tasks[i].kind = "bulkToggleColdEmail"
       THEN selected' = {} /\ out' = Toast("success", "rows updated")
       ELSE out' = <<>> /\ UNCHANGED selected
    /\ UNCHANGED <<schema, elsewhere, store, listener, rows, loading, hasColdEmailedColumn, ops>>

\* ------------------------------------------------------------------ Home
\* useEffect(() => { fetchRows(); }, []) and the Refresh button: fetchRows up to
\* its await
HomeFetchRows(owner) ==
    /\ view = "home" /\ Room
    /\ IF owner = "mount"
       THEN effect = "idle" /\ effect' = "done" /\ UNCHANGED ops
       ELSE Gesture /\ ops' = ops + 1 /\ UNCHANGED effect
    /\ fetchRowsStart(owner)
    /\ out' = <<>>
    /\ UNCHANGED <<schema, elsewhere, store, subscribed, channelRef, mounted, rows, selected,
                   hasColdEmailedColumn>>

\* fetchRows after the await: setRows(data || []) with or without an error; an
\* exception leaves the handler at the await
HomeFetchRowsReturn(i) ==
    /\ view = "home"
    /\ i \in DOMAIN tasks
    /\ tasks[i].kind = "fetch" /\ tasks[i].pc = "replied"
    /\ IF tasks[i].res = "throw"
       THEN UNCHANGED <<rows, loading>>
       ELSE rows' = tasks[i].data /\ loading' = FALSE
    /\ tasks' = Remove(tasks, i)
    /\ out' = <<>>
    /\ UNCHANGED <<schema, elsewhere, store, listener, selected, hasColdEmailedColumn, ops>>

\* setStatus(h.id, status): updateRow(id, { status }) up to its await
updateRow(id, s) ==
    /\ view = "home" /\ Gesture /\ Room
    /\ id \in CacheIds
    /\ tasks' = Append(tasks, Task("updateRow", "user", {id}, Find(rows, id).status, s, Null))
    /\ out' = <<>>
    /\ ops' = ops + 1
    /\ UNCHANGED <<schema, elsewhere, store, listener, rows, loading, selected, hasColdEmailedColumn>>

\* update(patch).eq('id', id).select('*').single(): the updated row, or an error
\* (also when no row matches), or the call throws
ServeUpdateRow(i, r) ==
    /\ i \in DOMAIN tasks
    /\ tasks[i].kind = "updateRow" /\ tasks[i].pc = "sent"
    /\ LET id == CHOOSE x \in tasks[i].ids : TRUE
       IN  IF r = "ok"
           THEN /\ db[id].live
                /\ CanNotify(1)
                /\ db' = [db EXCEPT ![id].status = tasks[i].target]
                /\ events' = Notify(1)
                /\ tasks' = [tasks EXCEPT ![i] = [@ EXCEPT !.pc = "replied", !.res = r,
                                 !.data = <<Row(db', id)>>]]
           ELSE /\ UNCHANGED <<db, events>>
                /\ tasks' = [tasks EXCEPT ![i] = [@ EXCEPT !.pc = "replied", !.res = r]]
    /\ out' = <<>>
    /\ UNCHANGED <<schema, elsewhere, listener, rows, loading, selected, hasColdEmailedColumn, ops>>

\* the map that replaces nothing
ReplacedNothing(rs, id, data) == rs

\* prev.map(r => r.id === id ? data : r)
Replaced(rs, id, data) == [i \in DOMAIN rs |-> IF rs[i].id = id THEN data ELSE rs[i]]

\* updateRow after the await: return on an error, else the returned row
\* replaces the entry
updateRowReturn(i) ==
    /\ i \in DOMAIN tasks
    /\ tasks[i].kind = "updateRow" /\ tasks[i].pc = "replied"
    /\ IF tasks[i].res = "ok"
       THEN rows' = Replaced(rows, CHOOSE x \in tasks[i].ids : TRUE, tasks[i].data[1])
       ELSE UNCHANGED rows
    /\ tasks' = Remove(tasks, i)
    /\ out' = <<>>
    /\ UNCHANGED <<schema, elsewhere, store, listener, loading, selected, hasColdEmailedColumn, ops>>

\* addHospital up to its await; a blank name returns at once
addHospital(blank) ==
    /\ view = "home" /\ Gesture /\ Room
    /\ IF blank THEN UNCHANGED tasks
       ELSE tasks' = Append(tasks, Task("addHospital", "user", {}, Null, "new", Null))
    /\ out' = <<>>
    /\ ops' = ops + 1
    /\ UNCHANGED <<schema, elsewhere, store, listener, rows, loading, selected, hasColdEmailedColumn>>

\* the id the store assigns to an inserted row
FreshId(d) == CHOOSE id \in Ids \ LiveIds(d) : \A o \in Ids \ LiveIds(d) : id <= o

\* insert({...}).select('*').single(): the inserted row, or an error, or the
\* call throws
ServeInsert(i, r) ==
    /\ i \in DOMAIN tasks
    /\ tasks[i].kind = "addHospital" /\ tasks[i].pc = "sent"
    /\ IF r = "ok"
       THEN /\ LiveIds(db) # Ids
            /\ CanNotify(1)
            /\ db' = [db EXCEPT ![FreshId(db)] =
                        [live |-> TRUE, status |-> "new",
                         cold_emailed |-> IF coldColumn THEN Null ELSE Absent]]
            /\ events' = Notify(1)
            /\ tasks' = [tasks EXCEPT ![i] = [@ EXCEPT !.pc = "replied", !.res = r,
                             !.data = <<Row(db', FreshId(db))>>]]
       ELSE /\ UNCHANGED <<db, events>>
            /\ tasks' = [tasks EXCEPT ![i] = [@ EXCEPT !.pc = "replied", !.res = r]]
    /\ out' = <<>>
    /\ UNCHANGED <<schema, elsewhere, listener, rows, loading, selected, hasColdEmailedColumn, ops>>

\* addHospital after the await: return on an error, else the returned row is
\* put in front of the cache
addHospitalReturn(i) ==
    /\ i \in DOMAIN tasks
    /\ tasks[i].kind = "addHospital" /\ tasks[i].pc = "replied"
    /\ IF tasks[i].res = "ok"
       THEN rows' = <<tasks[i].data[1]>> \o rows
       ELSE UNCHANGED rows
    /\ tasks' = Remove(tasks, i)
    /\ out' = <<>>
    /\ UNCHANGED <<schema, elsewhere, store, listener, loading, selected, hasColdEmailedColumn, ops>>

\* ------------------------------------------------------------------ initial state
\* the tables a session starts from: the Page over two rows, the first new or
\* reached; the Home over one row, the other id free for an insert
InitialTables(v, col) ==
    LET c == IF col THEN Null ELSE Absent
        r(s) == [live |-> TRUE, status |-> s, cold_emailed |-> c]
    IN  IF v = "page"
        THEN {[id \in Ids |-> IF id = 1 THEN r(IF col THEN "reached" ELSE "new") ELSE r("new")]}
        ELSE {[id \in Ids |-> IF id = 1 THEN r("new") ELSE NoRow]}

\* the projection controls as useState creates them
ProjectionInitial ==
    /\ q = <<>>
    /\ city = "All cities"
    /\ status = "All statuses"
    /\ sortKey = "name"
    /\ sortDir = "asc"
    /\ filtered = <<>>

\* no import is running
ImportIdle == csv = <<>> /\ resolved = "none"

\* an updates object: keys names the properties it has
Updates(keys, st, rating, sc) ==
    [keys |-> keys, status |-> st, manual_rating |-> rating, score |-> sc]

NoUpdates == Updates({}, STATUSES[1], 0, 0)

\* NextResponse.json(body, { status })
Json(code, body) == [status |-> code, body |-> body]

\* the handler is not waiting for the store
NoRequest == [pending |-> FALSE, id |-> 0, updates |-> NoUpdates]

\* nothing answered yet
NoResponse == Json(0, [none |-> TRUE])

\* a configured server that has served no request yet
ServerIdle ==
    /\ env = [url |-> TRUE, key |-> TRUE]
    /\ route = "guarded"
    /\ serverClient = FALSE
    /\ request = NoRequest
    /\ response = NoResponse

InitWith(v) ==
    /\ view = v
    /\ coldColumn \in (IF v = "page" THEN BOOLEAN ELSE {FALSE})
    /\ db \in InitialTables(view, coldColumn)
    /\ subscribed = FALSE
    /\ events = 0
    /\ rows = <<>>
    /\ loading = (view = "home")
    /\ selected = {}
    /\ hasColdEmailedColumn = FALSE
    /\ channelRef = "none"
    /\ effect = "idle"
    /\ mounted = TRUE
    /\ tasks = <<>>
    /\ out = <<>>
    /\ ops = 0
    /\ ProjectionInitial
    /\ ImportIdle
    /\ ServerIdle

Init == \E v \in {"page", "home"} : InitWith(v)

Outcomes == {"ok", "error", "throw"}

\* the store and the continuations of the handlers in flight
Loads ==
    \/ \E i \in 1..MaxTasks, r \in Outcomes : ServeFetch(i, r)
    \/ \E i \in 1..MaxTasks : fetchRowsReturn(i)

Listener ==
    \/ Mount
    \/ \E how \in {"channel", "legacy", "none"} : Subscribe(how)
    \/ Cleanup
    \/ OnChange
    \/ Refresh
    \/ \E id \in Ids, s \in ForeignStatuses : ForeignUpdate(id, s)
    \/ \E id \in Ids : ForeignDelete(id)

PageEdits ==
    \/ \E id \in Ids : toggleSelection(id)
    \/ \E checked \in BOOLEAN : selectAll(checked)
    \/ \E id \in Ids : toggleStatus(id)
    \/ \E id \in Ids : toggleColdEmail(id)
    \/ bulkSetStatus("closed")
    \/ \E markAs \in {"true", "false"} : bulkToggleColdEmail(markAs)
    \/ \E i \in 1..MaxTasks, r \in Outcomes : ServeUpdate(i, r)
    \/ \E i \in 1..MaxTasks : toggleStatusReturn(i)
    \/ \E i \in 1..MaxTasks : toggleColdEmailReturn(i)
    \/ \E i \in 1..MaxTasks : bulkSetStatusReturn(i)
    \/ \E i \in 1..MaxTasks : bulkToggleColdEmailReturn(i)
    \/ \E i \in 1..MaxTasks, r \in Outcomes : auditReturn(i, r)

HomeEdits ==
    \/ \E owner \in {"mount", "refresh"} : HomeFetchRows(owner)
    \/ \E i \in 1..MaxTasks : HomeFetchRowsReturn(i)
    \/ \E id \in Ids, s \in HomeStatusInputs : updateRow(id, s)
    \/ \E i \in 1..MaxTasks, r \in Outcomes : ServeUpdateRow(i, r)
    \/ \E i \in 1..MaxTasks : updateRowReturn(i)
    \/ \E blank \in BOOLEAN : addHospital(blank)
    \/ \E i \in 1..MaxTasks, r \in Outcomes : ServeInsert(i, r)
    \/ \E i \in 1..MaxTasks : addHospitalReturn(i)

Next == Loads \/ Listener \/ PageEdits \/ HomeEdits

Spec == Init /\ [][Next]_vars

\* the listener alone, over a store that answers every select and notifies every
\* change: the first load, the subscription, manual refresh, and other writers
\* once the subscription is in place
SyncNext ==
    \/ Mount
    \/ Subscribe("channel")
    \/ Refresh
    \/ OnChange
    \/ \E id \in Ids, s \in ForeignStatuses : subscribed /\ ForeignUpdate(id, s)
    \/ \E id \in Ids : subscribed /\ ForeignDelete(id)
    \/ \E i \in 1..MaxTasks : ServeFetch(i, "ok")
    \/ \E i \in 1..MaxTasks : fetchRowsReturn(i)

SpecSync == InitWith("page") /\ [][SyncNext]_vars

\* ------------------------------------------------------------------ Page: totals
\* r.status === 'closed' alone
IsClosedOnly(r) == r.status = "closed"

\* r.status === 'closed' || r.status === 'reached'
IsClosed(r) == r.status = "closed" \/ r.status = "reached"

\* r.cold_emailed === true
IsEmailed(r) == r.cold_emailed = "true"

\* useMemo totals over [rows, hasColdEmailedColumn]
totals ==
    LET total == Len(rows)
        closed == Len(SelectSeq(rows, IsClosed))
    IN  [total |-> total,
         closed |-> closed,
         open |-> total - closed,
         emailed |-> IF hasColdEmailedColumn THEN Len(SelectSeq(rows, IsEmailed)) ELSE 0]

\* ------------------------------------------------------------------ Page: bulk mutations
\* the Page after its first load, without subscription, with any selection the
\* checkboxes can have produced
InitBulk ==
    /\ view = "page"
    /\ coldColumn \in BOOLEAN
    /\ db \in InitialTables(view, coldColumn)
    /\ subscribed = FALSE
    /\ events = 0
    /\ rows = SelectAll(db)
    /\ loading = FALSE
    /\ selected \in SUBSET CacheIds
    /\ hasColdEmailedColumn = HasColdProperty(rows)
    /\ channelRef = "none"
    /\ effect = "done"
    /\ mounted = TRUE
    /\ tasks = <<>>
    /\ out = <<>>
    /\ ops = 0
    /\ ProjectionInitial
    /\ ImportIdle
    /\ ServerIdle

BulkNext ==
    \/ \E id \in Ids : toggleSelection(id)
    \/ \E checked \in BOOLEAN : selectAll(checked)
    \/ bulkSetStatus("closed")
    \/ \E markAs \in {"true", "false"} : bulkToggleColdEmail(markAs)
    \/ \E i \in 1..MaxTasks, r \in Outcomes : ServeUpdate(i, r)
    \/ \E i \in 1..MaxTasks : bulkSetStatusReturn(i)
    \/ \E i \in 1..MaxTasks : bulkToggleColdEmailReturn(i)
    \/ \E i \in 1..MaxTasks, r \in Outcomes : auditReturn(i, r)
    \/ \E i \in 1..MaxTasks, r \in Outcomes : ServeFetch(i, r)
    \/ \E i \in 1..MaxTasks : fetchRowsReturn(i)

SpecBulk == InitBulk /\ [][BulkNext]_vars

\* ------------------------------------------------------------------ Page: toggleStatus
\* the statuses a row can have when its button is clicked
ToggleInputs == {"new", "closed", "reached", "queued", Null}

\* the Page after its first load, without subscription, the first row in any
\* of the statuses
InitToggle ==
    /\ view = "page"
    /\ coldColumn = FALSE
    /\ \E s \in ToggleInputs :
          db = [id \in Ids |-> [live |-> TRUE, status |-> IF id = 1 THEN s ELSE "new",
                                cold_emailed |-> Absent]]
    /\ subscribed = FALSE
    /\ events = 0
    /\ rows = SelectAll(db)
    /\ loading = FALSE
    /\ selected = {}
    /\ hasColdEmailedColumn = FALSE
    /\ channelRef = "none"
    /\ effect = "done"
    /\ mounted = TRUE
    /\ tasks = <<>>
    /\ out = <<>>
    /\ ops = 0
    /\ ProjectionInitial
    /\ ImportIdle
    /\ ServerIdle

ToggleNext ==
    \/ \E id \in Ids : toggleStatus(id)
    \/ \E i \in 1..MaxTasks, r \in Outcomes : ServeUpdate(i, r)
    \/ \E i \in 1..MaxTasks : toggleStatusReturn(i)
    \/ \E i \in 1..MaxTasks, r \in Outcomes : ServeFetch(i, r)
    \/ \E i \in 1..MaxTasks : fetchRowsReturn(i)

SpecToggle == InitToggle /\ [][ToggleNext]_vars

\* ------------------------------------------------------------------ other sessions
\* another session marks a row cold-emailed, on a table that has the column
ForeignCold(id) ==
    /\ ops < MaxOps /\ effect # "idle"
    /\ coldColumn
    /\ db[id].live /\ db[id].cold_emailed # "true"
    /\ CanNotify(1)
    /\ db' = [db EXCEPT ![id].cold_emailed = "true"]
    /\ events' = Notify(1)
    /\ out' = <<>>
    /\ ops' = ops + 1
    /\ UNCHANGED <<schema, elsewhere, listener, rows, loading, selected, hasColdEmailedColumn, tasks>>

\* either component over a table with or without the cold_emailed column
InitFrame ==
    /\ view \in {"page", "home"}
    /\ coldColumn \in BOOLEAN
    /\ db \in InitialTables(view, coldColumn)
    /\ subscribed = FALSE
    /\ events = 0
    /\ rows = <<>>
    /\ loading = (view = "home")
    /\ selected = {}
    /\ hasColdEmailedColumn = FALSE
    /\ channelRef = "none"
    /\ effect = "idle"
    /\ mounted = TRUE
    /\ tasks = <<>>
    /\ out = <<>>
    /\ ops = 0
    /\ ProjectionInitial
    /\ ImportIdle
    /\ ServerIdle

\* the mutations, the loads and the writes of other sessions, on a view that
\* got no subscription: every reload is one a handler or the user starts
FrameNext ==
    \/ Loads
    \/ Mount
    \/ Subscribe("none")
    \/ Refresh
    \/ PageEdits
    \/ HomeEdits
    \/ \E id \in Ids : ForeignCold(id)
    \/ \E id \in Ids : ForeignDelete(id)

SpecFrame == InitFrame /\ [][FrameNext]_vars

\* ------------------------------------------------------------------ view projection
\* strings are sequences of characters
Space == <<" ">>
Comma == <<",">>

\* String.prototype.toLowerCase, on the characters the samples use
Lower(c) == IF c = "A" THEN "a" ELSE c

toLowerCase(str) == [i \in DOMAIN str |-> Lower(str[i])]

RECURSIVE trimStart(_)
trimStart(str) == IF str # <<>> /\ Head(str) = " " THEN trimStart(Tail(str)) ELSE str

RECURSIVE trimEnd(_)
trimEnd(str) ==
    IF str # <<>> /\ str[Len(str)] = " " THEN trimEnd(SubSeq(str, 1, Len(str) - 1)) ELSE str

\* String.prototype.trim
trim(str) == trimEnd(trimStart(str))

\* String.prototype.includes
includes(hay, needle) ==
    \E i \in 0..(Len(hay) - Len(needle)) : SubSeq(hay, i + 1, i + Len(needle)) = needle

\* Array.prototype.join
RECURSIVE join(_, _)
join(list, sep) ==
    IF list = <<>> THEN <<>>
    ELSE IF Len(list) = 1 THEN list[1]
    ELSE list[1] \o sep \o join(Tail(list), sep)

\* r.f || '' and r.f ?? '' on a string or null, r.f || [] on an array or null;
\* r.nulls names the fields of the row that hold null
OrEmpty(r, f) == IF f \in r.nulls THEN <<>> ELSE r[f]

\* UTF-16 code units, the order of < and > on strings
CodeUnit == [c \in {" ", ",", "A", "a", "b"} |->
                CASE c = " " -> 32 [] c = "," -> 44 [] c = "A" -> 65 [] c = "a" -> 97 [] c = "b" -> 98]

\* collation of localeCompare: letters first without their case, then lower
\* case before upper case
Primary == [c \in DOMAIN CodeUnit |-> CodeUnit[Lower(c)]]
Tertiary == [c \in DOMAIN CodeUnit |-> IF c = "A" THEN 1 ELSE 0]

\* lexicographic comparison of two strings under a ranking of characters
RECURSIVE LexCompare(_, _, _)
LexCompare(x, y, rank) ==
    IF x = <<>> /\ y = <<>> THEN 0
    ELSE IF x = <<>> THEN -1
    ELSE IF y = <<>> THEN 1
    ELSE IF rank[Head(x)] < rank[Head(y)] THEN -1
    ELSE IF rank[Head(x)] > rank[Head(y)] THEN 1
    ELSE LexCompare(Tail(x), Tail(y), rank)

\* String.prototype.localeCompare
localeCompare(x, y) ==
    IF LexCompare(x, y, Primary) # 0 THEN LexCompare(x, y, Primary)
    ELSE LexCompare(x, y, Tertiary)

\* new Date(r.created_at ?? 0).getTime()
Time(r) == IF "created_at" \in r.nulls THEN 0 ELSE r.created_at

\* the option 'All cities', kept as one character: no city of a row holds it
AllCities == <<"All cities">>

\* Page: the haystack of a row
PageHay(r) ==
    toLowerCase(OrEmpty(r, "name") \o Space \o OrEmpty(r, "city") \o Space
                \o join(OrEmpty(r, "emails"), Space) \o Space
                \o join(OrEmpty(r, "phones"), Space) \o Space \o OrEmpty(r, "address"))

\* Page: the callback of rows.filter
PageKeeps(r, text, c, st) ==
    /\ (trim(text) # <<>> => includes(PageHay(r), toLowerCase(trim(text))))
    /\ (c # AllCities => OrEmpty(r, "city") = c)
    /\ (st # "All statuses" => r.status = st)

\* Home: the needle is q.toLowerCase(), looked for in each field
HomeMatches(r, needle) ==
    \/ includes(toLowerCase(OrEmpty(r, "name")), needle)
    \/ includes(toLowerCase(OrEmpty(r, "city")), needle)
    \/ includes(toLowerCase(OrEmpty(r, "address")), needle)
    \/ includes(toLowerCase(join(OrEmpty(r, "emails"), Comma)), needle)
    \/ includes(toLowerCase(join(OrEmpty(r, "phones"), Comma)), needle)
    \/ includes(toLowerCase(OrEmpty(r, "digital_services")), needle)

\* Home: the three filters
HomeKeeps(r, text, c, st) ==
    /\ (trim(text) # <<>> => HomeMatches(r, toLowerCase(text)))
    /\ (c # <<>> => OrEmpty(r, "city") = c)
    /\ (st # "" => r.status = st)

Keeps(v, r, text, c, st) ==
    IF v = "page" THEN PageKeeps(r, text, c, st) ELSE HomeKeeps(r, text, c, st)

\* Array.prototype.filter: a new array
RECURSIVE Filter(_, _, _, _, _)
Filter(v, rs, text, c, st) ==
    IF rs = <<>> THEN <<>>
    ELSE (IF Keeps(v, Head(rs), text, c, st) THEN <<Head(rs)>> ELSE <<>>)
         \o Filter(v, Tail(rs), text, c, st)

\* Page: the comparator
PageCompare(key, dir, a, b) ==
    LET d == IF dir = "asc" THEN 1 ELSE -1
    IN  IF key = "name" THEN d * localeCompare(OrEmpty(a, "name"), OrEmpty(b, "name"))
        ELSE IF key = "created_at" THEN d * (Time(a) - Time(b))
        ELSE 0

\* Home: the comparator, on a[sortKey] and b[sortKey]
HomeCompare(key, dir, a, b) ==
    IF a[key] = b[key] THEN 0
    ELSE LET greater == IF key = "score" THEN a[key] > b[key]
                        ELSE LexCompare(a[key], b[key], CodeUnit) > 0
             cmp == IF greater THEN 1 ELSE -1
         IN  IF dir = "asc" THEN cmp ELSE -cmp

Compare(v, key, dir, a, b) ==
    IF v = "page" THEN PageCompare(key, dir, a, b) ELSE HomeCompare(key, dir, a, b)

\* Array.prototype.sort is stable: each element goes behind the elements that
\* do not compare greater
RECURSIVE InsertSorted(_, _, _, _, _)
InsertSorted(v, key, dir, arr, x) ==
    IF arr = <<>> THEN <<x>>
    ELSE IF Compare(v, key, dir, arr[Len(arr)], x) > 0
         THEN Append(InsertSorted(v, key, dir, SubSeq(arr, 1, Len(arr) - 1), x), arr[Len(arr)])
         ELSE Append(arr, x)

RECURSIVE Sorted(_, _, _, _)
Sorted(v, key, dir, arr) ==
    IF arr = <<>> THEN <<>>
    ELSE InsertSorted(v, key, dir, Sorted(v, key, dir, SubSeq(arr, 1, Len(arr) - 1)),
                      arr[Len(arr)])

\* the sort works on the cache itself when the filter kept every row
CacheAfterSortInPlace(rs, projected) ==
    IF Len(projected) = Len(rs) THEN projected ELSE rs

\* the sort works on the array that rows.filter(...) or [...rows] has built:
\* the cache is what it was
CacheAfterSort(rs, projected) == rs

\* useMemo filtered: filter, then sort
Projected(v, rs, text, c, st, key, dir) == Sorted(v, key, dir, Filter(v, rs, text, c, st))

\* the render that follows a change of the controls
Render ==
    /\ filtered' = Projected(view, rows, q', city', status', sortKey', sortDir')
    /\ rows' = CacheAfterSort(rows, filtered')
    /\ UNCHANGED <<schema, store, listener, loading, selected, hasColdEmailedColumn,
                   tasks, out, ops, import, server>>

QInputs == {<<>>, <<" ">>, <<"a">>, <<"A">>, <<"a", " ">>, <<"a", " ", "b">>}
CityInputs == {<<"a">>, <<"b">>}
StatusInputs == {STATUSES[1], STATUSES[5]}

\* the search box
setQ(text) ==
    /\ q' = text /\ q' # q
    /\ UNCHANGED <<city, status, sortKey, sortDir>>
    /\ Render

\* the city select, its first option being the sentinel
setCity(c) ==
    /\ city' = c /\ city' # city
    /\ UNCHANGED <<q, status, sortKey, sortDir>>
    /\ Render

\* the status select, its first option being the sentinel
setStatus(st) ==
    /\ status' = st /\ status' # status
    /\ UNCHANGED <<q, city, sortKey, sortDir>>
    /\ Render

\* Page: onSort, wired to the Name header only
onSort(key) ==
    /\ view = "page"
    /\ IF sortKey = key
       THEN sortDir' = (IF sortDir = "asc" THEN "desc" ELSE "asc") /\ UNCHANGED sortKey
       ELSE sortKey' = key /\ sortDir' = "asc"
    /\ UNCHANGED <<q, city, status>>
    /\ Render

\* Home: toggleSort, wired to the Score and Name headers
toggleSort(key) ==
    /\ view = "home"
    /\ IF sortKey = key
       THEN sortDir' = (IF sortDir = "asc" THEN "desc" ELSE "asc") /\ UNCHANGED sortKey
       ELSE sortKey' = key /\ sortDir' = "desc"
    /\ UNCHANGED <<q, city, status>>
    /\ Render

CitySentinel(v) == IF v = "page" THEN AllCities ELSE <<>>
StatusSentinel(v) == IF v = "page" THEN "All statuses" ELSE ""

\* rows as a load delivers them
SampleRows ==
    <<[name |-> <<"A">>, city |-> <<"a">>, emails |-> <<>>, phones |-> <<>>,
       address |-> <<>>, digital_services |-> <<>>,
       status |-> STATUSES[1], created_at |-> 2, score |-> 20,
       nulls |-> {"phones", "address", "digital_services"}],
      [name |-> <<"a">>, city |-> <<"b">>, emails |-> << <<"b">>, <<"a">> >>, phones |-> <<>>,
       address |-> <<>>, digital_services |-> <<>>,
       status |-> STATUSES[5], created_at |-> 1, score |-> 0,
       nulls |-> {"address", "digital_services"}],
      [name |-> <<"b">>, city |-> <<>>, emails |-> <<>>, phones |-> << <<"b">> >>,
       address |-> <<"b", " ">>, digital_services |-> <<"A">>,
       status |-> STATUSES[1], created_at |-> 0, score |-> 20,
       nulls |-> {"city", "emails", "created_at"}],
      [name |-> <<"a">>, city |-> <<"a">>, emails |-> <<>>, phones |-> <<>>,
       address |-> <<"b">>, digital_services |-> <<>>,
       status |-> STATUSES[5], created_at |-> 2, score |-> 40,
       nulls |-> {"digital_services"}]>>

MaxCache == 3

WithId(k) == [id |-> k] @@ SampleRows[k]

\* the caches of at most MaxCache rows with different ids
Caches ==
    {c \in UNION {[1..n -> DOMAIN SampleRows] : n \in 0..MaxCache} :
        \A i, j \in DOMAIN c : i # j => c[i] # c[j]}

InitView ==
    /\ view \in {"page", "home"}
    /\ coldColumn = FALSE
    /\ db = [id \in Ids |-> NoRow]
    /\ subscribed = FALSE /\ events = 0
    /\ \E c \in Caches : rows = [i \in DOMAIN c |-> WithId(c[i])]
    /\ loading = FALSE
    /\ selected = {}
    /\ hasColdEmailedColumn = FALSE
    /\ channelRef = "none" /\ effect = "done" /\ mounted = TRUE
    /\ tasks = <<>> /\ out = <<>> /\ ops = 0
    /\ q = <<>>
    /\ city = CitySentinel(view)
    /\ status = StatusSentinel(view)
    /\ sortKey = (IF view = "page" THEN "name" ELSE "score")
    /\ sortDir = (IF view = "page" THEN "asc" ELSE "desc")
    /\ filtered = Projected(view, rows, q, city, status, sortKey, sortDir)
    /\ ImportIdle
    /\ ServerIdle

ViewNext ==
    \/ \E text \in QInputs : setQ(text)
    \/ \E c \in CityInputs \cup {CitySentinel(view)} : setCity(c)
    \/ \E st \in StatusInputs \cup {StatusSentinel(view)} : setStatus(st)
    \/ onSort("name")
    \/ \E key \in {"score", "name"} : toggleSort(key)

SpecView == InitView /\ [][ViewNext]_vars

\* ------------------------------------------------------------------ /api/hospitals
\* the table as the route and the rating handlers see it:
\* id -> [live, status, manual_rating, score]
NoRecord == [live |-> FALSE, status |-> STATUSES[1], manual_rating |-> 0, score |-> 0]

\* .select("id, name, status, manual_rating, score, updated_at") of one row
Selected(d, id) ==
    [id |-> id, status |-> d[id].status, manual_rating |-> d[id].manual_rating,
     score |-> d[id].score]

UpdatesInputs ==
    {NoUpdates,
     Updates({"status"}, STATUSES[5], 0, 0),
     Updates({"score"}, STATUSES[1], 0, 50),
     Updates({"manual_rating", "score"}, STATUSES[1], 3, 60)}

\* a request body: text that JSON.parse rejects (the empty body too), or an
\* object; has names which of id and updates it carries
Body(valid, has, id, updates) == [valid |-> valid, has |-> has, id |-> id, updates |-> updates]

Bodies ==
    {Body(FALSE, {}, 0, NoUpdates)}
    \cup {Body(TRUE, has, id, u) :
            has \in SUBSET {"id", "updates"}, id \in {0} \cup Ids, u \in UpdatesInputs}

\* !id || !updates || Object.keys(updates).length === 0
MissingIdOrUpdates(body) ==
    \/ "id" \notin body.has \/ body.id = 0
    \/ "updates" \notin body.has
    \/ body.updates.keys = {}

\* getSupabaseServer(): the memoized client, or the error it throws
ClientError ==
    IF serverClient THEN "none"
    ELSE IF ~env.url THEN "Missing SUPABASE_URL / NEXT_PUBLIC_SUPABASE_URL"
    ELSE IF ~env.key THEN "Missing SUPABASE_SERVICE_ROLE_KEY"
    ELSE "none"

ErrorBody(message) == [error |-> message]

\* { data: result }: a row, or the array the store returned
DataBody(kind, value) == [data |-> [kind |-> kind, value |-> value]]

\* GET with the server client created first, as PATCH does
GETThroughClient ==
    /\ ~request.pending
    /\ IF ClientError # "none"
       THEN response' = Json(500, ErrorBody(ClientError)) /\ UNCHANGED serverClient
       ELSE response' = Json(200, [ok |-> TRUE, route |-> "hospitals"])
            /\ serverClient' = TRUE
    /\ UNCHANGED <<schema, store, listener, rows, loading, selected, hasColdEmailedColumn,
                   tasks, out, ops, projection, import, env, route, request>>

\* GET: NextResponse.json({ ok: true, route: "hospitals" })
GET ==
    /\ ~request.pending
    /\ response' = Json(200, [ok |-> TRUE, route |-> "hospitals"])
    /\ UNCHANGED <<schema, store, listener, rows, loading, selected, hasColdEmailedColumn,
                   tasks, out, ops, projection, import, env, route, serverClient, request>>

\* PATCH up to its await: the client, the body, the check of id and updates; an
\* exception of any of them goes to the catch of the handler
PATCH(body) ==
    /\ ~request.pending
    /\ IF ClientError # "none"
       THEN /\ response' = Json(500, ErrorBody(ClientError))
            /\ UNCHANGED <<serverClient, request>>
       ELSE /\ serverClient' = TRUE
            /\ IF ~body.valid
               THEN /\ response' = IF route = "guarded"
                                   THEN Json(400, ErrorBody("Invalid JSON body"))
                                   ELSE Json(500, ErrorBody("Unexpected end of JSON input"))
                    /\ UNCHANGED request
               ELSE IF MissingIdOrUpdates(body)
               THEN /\ response' = Json(400, ErrorBody("Missing id or updates"))
                    /\ UNCHANGED request
               ELSE /\ request' = [pending |-> TRUE, id |-> body.id, updates |-> body.updates]
                    /\ response' = NoResponse
    /\ UNCHANGED <<schema, store, listener, rows, loading, selected, hasColdEmailedColumn,
                   tasks, out, ops, projection, import, env, route>>

\* update(updates) on every row
PatchedAll(d, id, u) ==
    [x \in DOMAIN d |->
        IF d[x].live
        THEN [f \in DOMAIN d[x] |-> IF f \in u.keys THEN u[f] ELSE d[x][f]]
        ELSE d[x]]

\* update(updates).eq("id", id)
Patched(d, id, u) ==
    [x \in DOMAIN d |->
        IF x = id /\ d[x].live
        THEN [f \in DOMAIN d[x] |-> IF f \in u.keys THEN u[f] ELSE d[x][f]]
        ELSE d[x]]

\* the rows the update returns
Returned(d, id) == IF d[id].live THEN <<Selected(d, id)>> ELSE <<>>

\* Array.isArray(data) ? data[0] ?? data : data
Result(data) == IF data # <<>> THEN DataBody("row", <<data[1]>>) ELSE DataBody("array", data)

\* the store answers the update and PATCH answers the request
PATCHReturn(r) ==
    /\ request.pending
    /\ request' = NoRequest
    /\ IF r = "ok"
       THEN /\ db' = Patched(db, request.id, request.updates)
            /\ response' = Json(200, Result(Returned(db', request.id)))
       ELSE /\ response' = Json(500, ErrorBody(IF r = "error" THEN "store error"
                                                ELSE "exception"))
            /\ UNCHANGED db
    /\ UNCHANGED <<schema, events, listener, rows, loading, selected, hasColdEmailedColumn,
                   tasks, out, ops, projection, import, env, route, serverClient>>

\* a server in any configuration, in front of a table of one row
InitRoute ==
    /\ view = "home"
    /\ coldColumn = FALSE
    /\ db = [id \in Ids |-> IF id = 1 THEN [NoRecord EXCEPT !.live = TRUE] ELSE NoRecord]
    /\ subscribed = FALSE /\ events = 0
    /\ rows = <<>>
    /\ loading = TRUE
    /\ selected = {}
    /\ hasColdEmailedColumn = FALSE
    /\ channelRef = "none" /\ effect = "idle" /\ mounted = TRUE
    /\ tasks = <<>> /\ out = <<>> /\ ops = 0
    /\ ProjectionInitial
    /\ ImportIdle
    /\ env \in [url : BOOLEAN, key : BOOLEAN]
    /\ route \in {"guarded", "second", "part_001"}
    /\ serverClient = FALSE
    /\ request = NoRequest
    /\ response = NoResponse

RouteNext ==
    \/ GET
    \/ \E body \in Bodies : PATCH(body)
    \/ \E r \in Outcomes : PATCHReturn(r)

SpecRoute == InitRoute /\ [][RouteNext]_vars

\* ------------------------------------------------------------------ Home: rating
\* blendScore(auto_score, manual_rating), the rating being one of the integers 0..5
\* of the select: Math.round(manual_rating * 20 * 100) / 100
blendScore(auto_score, manual_rating) ==
    LET manualScaled == manual_rating * 20
    IN  (manualScaled * 100) \div 100

RatingInputs == {0, 3}

\* select("*").order("score", { ascending: false }): the live rows by falling
\* score, rows of equal score by id
SelectByScore(d) ==
    LET live == LiveIds(d)
        order == CHOOSE seq \in [1..Cardinality(live) -> live] :
                    \A i, j \in DOMAIN seq :
                        i < j => \/ d[seq[i]].score > d[seq[j]].score
                                 \/ (d[seq[i]].score = d[seq[j]].score /\ seq[i] < seq[j])
    IN  [i \in DOMAIN order |-> Selected(d, order[i])]

\* the store answers the select of Home's fetchRows
ServeScoreSelect(i, r) ==
    /\ i \in DOMAIN tasks
    /\ tasks[i].kind = "fetch" /\ tasks[i].pc = "sent"
    /\ tasks' = [tasks EXCEPT ![i] = [@ EXCEPT !.pc = "replied", !.res = r,
                     !.data = IF r = "ok" THEN SelectByScore(db) ELSE <<>>]]
    /\ out' = <<>>
    /\ UNCHANGED <<schema, elsewhere, store, listener, rows, loading, selected,
                   hasColdEmailedColumn, ops>>

\* setRating(h.id, rating): updateRow(id, { manual_rating: rating, score }) up to
\* its await
setRating(id, rating) ==
    /\ view = "home" /\ Gesture /\ Room
    /\ id \in CacheIds
    /\ LET score == blendScore(0, rating)
       IN  tasks' = Append(tasks, Task("updateRow", "setRating", {id}, Null,
                              Updates({"manual_rating", "score"}, STATUSES[1], rating, score),
                              Null))
    /\ out' = <<>>
    /\ ops' = ops + 1
    /\ UNCHANGED <<schema, elsewhere, store, listener, rows, loading, selected,
                   hasColdEmailedColumn>>

\* update(patch).eq("id", id).select("*").single() of setRating: the updated row,
\* or an error (also when no row matches), or the call throws
ServeRatingUpdate(i, r) ==
    /\ i \in DOMAIN tasks
    /\ tasks[i].kind = "updateRow" /\ tasks[i].pc = "sent"
    /\ LET id == CHOOSE x \in tasks[i].ids : TRUE
       IN  IF r = "ok"
           THEN /\ db[id].live
                /\ db' = Patched(db, id, tasks[i].target)
                /\ tasks' = [tasks EXCEPT ![i] = [@ EXCEPT !.pc = "replied", !.res = r,
                                 !.data = <<Selected(db', id)>>]]
           ELSE /\ UNCHANGED db
                /\ tasks' = [tasks EXCEPT ![i] = [@ EXCEPT !.pc = "replied", !.res = r]]
    /\ out' = <<>>
    /\ UNCHANGED <<schema, elsewhere, events, listener, rows, loading, selected,
                   hasColdEmailedColumn, ops>>

\* the requests to the route that touch the rating or the score of row 1
RatingBodies ==
    {Body(TRUE, {"id", "updates"}, 1, u) :
        u \in {Updates({"score"}, STATUSES[1], 0, 50),
               Updates({"manual_rating"}, STATUSES[1], 3, 0),
               Updates({"manual_rating", "score"}, STATUSES[1], 3, 60)}}

\* the Home over two rated rows, next to a configured server
InitRating ==
    /\ view = "home"
    /\ coldColumn = FALSE
    /\ db = [id \in Ids |->
               [NoRecord EXCEPT !.live = TRUE,
                                !.manual_rating = IF id = 1 THEN 0 ELSE 3,
                                !.score = blendScore(0, IF id = 1 THEN 0 ELSE 3)]]
    /\ subscribed = FALSE /\ events = 0
    /\ rows = <<>>
    /\ loading = TRUE
    /\ selected = {}
    /\ hasColdEmailedColumn = FALSE
    /\ channelRef = "none" /\ effect = "idle" /\ mounted = TRUE
    /\ tasks = <<>> /\ out = <<>> /\ ops = 0
    /\ ProjectionInitial
    /\ ImportIdle
    /\ ServerIdle

RatingNext ==
    \/ \E owner \in {"mount", "refresh"} : HomeFetchRows(owner)
    \/ \E i \in 1..MaxTasks, r \in Outcomes : ServeScoreSelect(i, r)
    \/ \E i \in 1..MaxTasks : HomeFetchRowsReturn(i)
    \/ \E id \in Ids, rating \in RatingInputs : setRating(id, rating)
    \/ \E i \in 1..MaxTasks, r \in Outcomes : ServeRatingUpdate(i, r)
    \/ \E i \in 1..MaxTasks : updateRowReturn(i)
    \/ \E body \in RatingBodies : PATCH(body)
    \/ \E r \in Outcomes : PATCHReturn(r)

SpecRating == InitRating /\ [][RatingNext]_vars

\* ------------------------------------------------------------------ Home: importCSV
MaxCsv == 2

\* the records Papa.parse delivers: line numbers, with or without a name
Files ==
    UNION {{[k \in 1..n |-> [line |-> k, named |-> b[k]]] : b \in [1..n -> BOOLEAN]} :
             n \in 0..MaxCsv}

\* if (!r.name && !r.Name) continue
RECURSIVE SkipUnnamed(_)
SkipUnnamed(records) ==
    IF records # <<>> /\ ~Head(records).named THEN SkipUnnamed(Tail(records)) ELSE records

\* the frame of the loop at the await of an insert
InsertTask(record) == Task("importCSV", "user", {}, record.line, "new", Null)

\* importCSV(file): the complete callback up to its first await, the insert of
\* the first named record or, when there is none, fetchRows()
importCSV(file) ==
    /\ view = "home" /\ Gesture /\ Room
    /\ resolved # "pending"
    /\ resolved' = "pending"
    /\ LET todo == SkipUnnamed(file)
       IN  IF todo = <<>>
           THEN csv' = <<>> /\ fetchRowsStart("importCSV")
           ELSE /\ csv' = Tail(todo)
                /\ tasks' = Append(tasks, InsertTask(Head(todo)))
                /\ UNCHANGED loading
    /\ out' = <<>>
    /\ ops' = ops + 1
    /\ UNCHANGED <<schema, store, listener, rows, selected, hasColdEmailedColumn,
                   projection, server>>

\* insert({...}) of the import: a new row, or an error, or the call throws
ServeImportInsert(i, r) ==
    /\ i \in DOMAIN tasks
    /\ tasks[i].kind = "importCSV" /\ tasks[i].pc = "sent"
    /\ IF r = "ok"
       THEN /\ LiveIds(db) # Ids
            /\ db' = [db EXCEPT ![FreshId(db)] = [NoRecord EXCEPT !.live = TRUE]]
       ELSE UNCHANGED db
    /\ tasks' = [tasks EXCEPT ![i] = [@ EXCEPT !.pc = "replied", !.res = r]]
    /\ out' = <<>>
    /\ UNCHANGED <<schema, elsewhere, events, listener, rows, loading, selected,
                   hasColdEmailedColumn, ops>>

\* the loop after the await of an insert, whose answer nobody reads: the next
\* named record, or fetchRows() after the last; an exception of the insert ends
\* the callback there, with the promise of importCSV left pending
importCSVReturn(i) ==
    /\ i \in DOMAIN tasks
    /\ tasks[i].kind = "importCSV" /\ tasks[i].pc = "replied"
    /\ IF tasks[i].res = "throw"
       THEN /\ tasks' = Remove(tasks, i)
            /\ UNCHANGED <<csv, loading>>
       ELSE LET todo == SkipUnnamed(csv)
            IN  IF todo = <<>>
                THEN /\ csv' = <<>>
                     /\ loading' = TRUE
                     /\ tasks' = [tasks EXCEPT ![i] = Reload(@)]
                ELSE /\ csv' = Tail(todo)
                     /\ tasks' = [tasks EXCEPT ![i] = InsertTask(Head(todo))]
                     /\ UNCHANGED loading
    /\ out' = <<>>
    /\ UNCHANGED <<schema, store, listener, rows, selected, hasColdEmailedColumn, ops,
                   projection, server, resolved>>

\* await fetchRows() of the import is over: resolve(); an exception of the
\* select leaves fetchRows at its await and the promise pending
importCSVFetchReturn(i) ==
    /\ view = "home"
    /\ i \in DOMAIN tasks
    /\ tasks[i].kind = "fetch" /\ tasks[i].owner = "importCSV" /\ tasks[i].pc = "replied"
    /\ IF tasks[i].res = "throw"
       THEN UNCHANGED <<rows, loading, resolved>>
       ELSE rows' = tasks[i].data /\ loading' = FALSE /\ resolved' = "resolved"
    /\ tasks' = Remove(tasks, i)
    /\ out' = <<>>
    /\ UNCHANGED <<schema, store, listener, selected, hasColdEmailedColumn, ops,
                   projection, server, csv>>

\* the Home, loaded, over an empty table
InitImport ==
    /\ view = "home"
    /\ coldColumn = FALSE
    /\ db = [id \in Ids |-> NoRecord]
    /\ subscribed = FALSE /\ events = 0
    /\ rows = <<>>
    /\ loading = FALSE
    /\ selected = {}
    /\ hasColdEmailedColumn = FALSE
    /\ channelRef = "none" /\ effect = "done" /\ mounted = TRUE
    /\ tasks = <<>> /\ out = <<>> /\ ops = 0
    /\ ProjectionInitial
    /\ ImportIdle
    /\ ServerIdle

ImportNext ==
    \/ \E file \in Files : importCSV(file)
    \/ \E i \in 1..MaxTasks, r \in Outcomes : ServeImportInsert(i, r)
    \/ \E i \in 1..MaxTasks : importCSVReturn(i)
    \/ \E i \in 1..MaxTasks, r \in Outcomes : ServeScoreSelect(i, r)
    \/ \E i \in 1..MaxTasks : importCSVFetchReturn(i)

SpecImport == InitImport /\ [][ImportNext]_vars

\* ------------------------------------------------------------------ properties
\* the entries of the cache for the ids of a handler's frame
Entries(rs, ids) == {rs[k] : k \in {j \in DOMAIN rs : rs[j].id \in ids}}

Failed(i) == tasks[i].res # "ok"

StartsReload(i) == tasks'[i].kind = "fetch" /\ tasks'[i].pc = "sent" /\ loading'

PushesError == Len(out') = 1 /\ out'[1].type = "error"

\* C1: when the update of a single-row mutation (toggleStatus, toggleColdEmail)
\* fails, by an error or an exception, the cache entry of the id gets back exactly
\* the value the field had when the mutation was invoked, one error toast is
\* pushed and fetchRows is started.
C1_FailureRestoresValue ==
    [][\A i \in 1..MaxTasks :
          /\ (toggleStatusReturn(i) /\ Failed(i)) =>
                /\ \A r \in Entries(rows', tasks[i].ids) : r.status = tasks[i].current
                /\ PushesError
                /\ StartsReload(i)
          /\ (toggleColdEmailReturn(i) /\ Failed(i)) =>
                /\ \A r \in Entries(rows', tasks[i].ids) : r.cold_emailed = tasks[i].current
                /\ PushesError
                /\ StartsReload(i)]_vars

\* C2 as claimed: right after the success of a single-row mutation is handled,
\* the cache entry is the returned row (updateRow) or holds the optimistic value
\* (toggleStatus, toggleColdEmail), whatever else was in flight meanwhile.
C2_SuccessLeavesPatch ==
    [][\A i \in 1..MaxTasks :
          /\ (updateRowReturn(i) /\ ~Failed(i)) =>
                \A r \in Entries(rows', tasks[i].ids) : r = tasks[i].data[1]
          /\ (toggleStatusReturn(i) /\ ~Failed(i)) =>
                \A r \in Entries(rows', tasks[i].ids) : r.status = tasks[i].target
          /\ (toggleColdEmailReturn(i) /\ ~Failed(i)) =>
                \A r \in Entries(rows', tasks[i].ids) : r.cold_emailed = tasks[i].target]_vars

\* C2 as amended: right after the success of updateRow is handled, the cache
\* entry is the returned row; the success handling of toggleStatus and of
\* toggleColdEmail writes nothing to the cache, so the entry keeps the value it
\* had just before, which is the optimistic one only if no load and no other
\* mutation has written the entry in the meantime.
C2_SuccessHandling ==
    [][\A i \in 1..MaxTasks :
          /\ (updateRowReturn(i) /\ ~Failed(i)) =>
                /\ \A r \in Entries(rows', tasks[i].ids) : r = tasks[i].data[1]
                /\ Len(rows') = Len(rows)
          /\ ((toggleStatusReturn(i) \/ toggleColdEmailReturn(i)) /\ ~Failed(i)) =>
                rows' = rows]_vars

\* a toggle whose update the store has applied, while a load or another mutation
\* has already replaced the optimistic value in the cache
C2_Witness ==
    \E i \in DOMAIN tasks :
        /\ tasks[i].kind = "toggleStatus" /\ tasks[i].pc = "replied" /\ tasks[i].res = "ok"
        /\ \E r \in Entries(rows, tasks[i].ids) : r.status # tasks[i].target

\* C4: a cold-email mutation invoked while hasColdEmailedColumn is false sends
\* nothing to the store, leaves the cache and the selection as they are and
\* pushes exactly one error toast.
C4_GuardRejects ==
    [][~hasColdEmailedColumn =>
          \A id \in Ids, markAs \in {"true", "false"} :
              (toggleColdEmail(id) \/ bulkToggleColdEmail(markAs)) =>
                  /\ tasks' = tasks /\ db' = db
                  /\ rows' = rows /\ selected' = selected
                  /\ PushesError]_vars

\* the guard has just rejected a cold-email mutation over a loaded cache with a
\* selection
C4_Witness ==
    /\ out = Toast("error", "cold_emailed column missing")
    /\ ~hasColdEmailedColumn
    /\ rows # <<>> /\ selected # {}

BulkFailed(i) == (bulkSetStatusReturn(i) \/ bulkToggleColdEmailReturn(i)) /\ Failed(i)

BulkReloadEnds(i) == fetchRowsReturn(i) /\ tasks[i].owner \in BulkMutations

\* C3 as claimed: when the update of a bulk mutation fails, no row is rolled back
\* and fetchRows is started; once that handling has finished, the cache is the
\* result of a fresh fetch of the table, never the optimistic values.
C3_FailureEndsOnFreshFetch ==
    [][\A i \in 1..MaxTasks :
          /\ BulkFailed(i) => (rows' = rows /\ StartsReload(i))
          /\ BulkReloadEnds(i) => (tasks[i].res = "ok" /\ rows' = tasks[i].data)]_vars

\* C3 as amended: when the update of a bulk mutation fails, no row is rolled back
\* and fetchRows is started; once that handling has finished, the cache is the
\* result of that reload if its select succeeded, and is left as it was, the
\* optimistic values included, if the reload failed too.
C3_FailureReloads ==
    [][\A i \in 1..MaxTasks :
          /\ BulkFailed(i) => (rows' = rows /\ StartsReload(i))
          /\ BulkReloadEnds(i) =>
                rows' = IF tasks[i].res = "ok" THEN tasks[i].data ELSE rows]_vars

\* the reload of a failed bulk mutation has been answered while the cache still
\* shows the optimistic values
C3_Witness ==
    \E i \in DOMAIN tasks :
        /\ tasks[i].kind = "fetch" /\ tasks[i].owner \in BulkMutations
        /\ tasks[i].pc = "replied" /\ tasks[i].res = "ok"
        /\ rows # tasks[i].data
        /\ \E r \in Entries(rows, tasks[i].ids) :
              tasks[i].target \in {r.status, r.cold_emailed}

\* C5: when a load gets an error or an exception, the cache and the flag stay
\* as they were, the error is reported, and no further select is sent.
C5_FailedLoadKeepsCache ==
    [][\A i \in 1..MaxTasks :
          /\ ((fetchRowsReturn(i) \/ HomeFetchRowsReturn(i)) /\ Failed(i)) =>
                /\ rows' = rows
                /\ hasColdEmailedColumn' = hasColdEmailedColumn
                /\ tasks' = Remove(tasks, i)
          /\ (fetchRowsReturn(i) /\ Failed(i)) => PushesError]_vars

\* C6: no two entries of the cache have the same id.
C6_UniqueIds ==
    \A i, j \in DOMAIN rows : i # j => rows[i].id # rows[j].id

\* C7: with the subscription in place, once every load has completed (each of
\* them successfully), every notification has been delivered and no handler is
\* in flight, the cache equals the remote table.
C7_Resynced ==
    (mounted /\ subscribed /\ effect = "done" /\ tasks = <<>> /\ events = 0)
        => rows = SelectAll(db)

\* C8: once the cleanup has run and the mount effect has finished, the store
\* holds no subscription of this view.
C8_Released ==
    (~mounted /\ effect = "done") => ~subscribed

\* C9: every single-row and bulk mutation writes its patch to the cache before
\* its update is sent: in the state in which the call has just been issued, the
\* entries of its ids hold the patched value.
C9_OptimisticBeforeCall ==
    [][\A i \in 1..MaxTasks :
          (/\ Len(tasks') = Len(tasks) + 1 /\ i = Len(tasks')
           /\ tasks'[i].kind \in PageMutations \cup {"updateRow"})
          => \A r \in Entries(rows', tasks'[i].ids) :
                IF tasks'[i].kind \in ColdMutations
                THEN r.cold_emailed = tasks'[i].target
                ELSE r.status = tasks'[i].target]_vars

\* C10: calls on one record are not serialized: a single-row mutation invoked
\* while others are in flight writes its optimistic value at once, computed
\* from what the cache shows, and joins the handlers in flight behind the
\* earlier ones, which stay as they are.
C10_WritesInCallOrder ==
    [][\A id \in Ids :
          /\ toggleStatus(id) =>
                /\ \A r \in Entries(rows', {id}) :
                      r.status = StatusTarget(Find(rows, id).status)
                /\ SubSeq(tasks', 1, Len(tasks)) = tasks
                /\ tasks'[Len(tasks')].pc = "sent"
          /\ (hasColdEmailedColumn /\ toggleColdEmail(id)) =>
                /\ \A r \in Entries(rows', {id}) :
                      r.cold_emailed = ColdTarget(Find(rows, id).cold_emailed)
                /\ SubSeq(tasks', 1, Len(tasks)) = tasks
                /\ tasks'[Len(tasks')].pc = "sent"]_vars

\* the first of two toggles of one record has failed after the second was
\* invoked, and its rollback has replaced the second's optimistic value
C10_Witness ==
    \E i, j \in DOMAIN tasks :
        /\ i < j
        /\ tasks[i].kind = "fetch" /\ tasks[i].owner = "toggleStatus" /\ tasks[i].pc = "sent"
        /\ tasks[j].kind = "toggleStatus" /\ tasks[j].ids = tasks[i].ids
        /\ Entries(rows, tasks[i].ids) # {}
        /\ \A r \in Entries(rows, tasks[i].ids) :
              r.status = tasks[i].prev /\ r.status # tasks[j].target

\* C12: the audit insert into cold_emails is fire-and-forget: whatever its
\* outcome, the handler ends as a success (no rollback, no reload, no error
\* toast; the bulk handler clears the selection and pushes its success toast),
\* it is attempted after every successful cold-email update and never after a
\* failed one.
C12_AuditFireAndForget ==
    [][\A i \in 1..MaxTasks :
          /\ \A r \in Outcomes : auditReturn(i, r) =>
                /\ rows' = rows /\ loading' = loading /\ db' = db
                /\ tasks' = Remove(tasks, i)
                /\ IF tasks[i].kind = "bulkToggleColdEmail"
                   THEN selected' = {} /\ out' = Toast("success", "rows updated")
                   ELSE selected' = selected /\ out' = <<>>
          /\ (toggleColdEmailReturn(i) \/ bulkToggleColdEmailReturn(i)) =>
                (tasks'[i].pc = "audit") = ~Failed(i)]_vars

\* the bulk cold-email handler has ended after its audit insert: the selected
\* rows are marked, the selection is cleared and the success toast is out
C12_Witness ==
    /\ out = Toast("success", "rows updated")
    /\ selected = {} /\ tasks = <<>>
    /\ \E k \in DOMAIN rows : rows[k].cold_emailed = "true"

\* C20: a successful load replaces the whole cache with the fetched rows and
\* sets hasColdEmailedColumn to true exactly when at least one fetched row has
\* the cold_emailed property; a successful load of no rows sets it to false.
C20_LoadReplaces ==
    [][\A i \in 1..MaxTasks :
          (fetchRowsReturn(i) /\ ~Failed(i)) =>
              /\ rows' = tasks[i].data
              /\ hasColdEmailedColumn' =
                    (\E k \in DOMAIN tasks[i].data : tasks[i].data[k].cold_emailed # Absent)
              /\ (tasks[i].data = <<>> => ~hasColdEmailedColumn')]_vars

\* a load has been answered with no rows while the cache is not empty and the
\* flag is true
C20_Witness ==
    \E i \in DOMAIN tasks :
        /\ view = "page"
        /\ tasks[i].kind = "fetch" /\ tasks[i].pc = "replied" /\ tasks[i].res = "ok"
        /\ tasks[i].data = <<>>
        /\ rows # <<>> /\ hasColdEmailedColumn

\* the text of a row that the search looks at: name, city, emails, phones, address
SearchedText(r) ==
    OrEmpty(r, "name") \o Space \o OrEmpty(r, "city") \o Space
    \o join(OrEmpty(r, "emails"), Space) \o Space
    \o join(OrEmpty(r, "phones"), Space) \o Space \o OrEmpty(r, "address")

SameLetter(c, d) == Lower(c) = Lower(d)

ContainsIgnoringCase(hay, needle) ==
    \E i \in 0..(Len(hay) - Len(needle)) :
        \A k \in 1..Len(needle) : SameLetter(hay[i + k], needle[k])

PassesFilters(r) ==
    /\ trim(q) = <<>> \/ ContainsIgnoringCase(SearchedText(r), trim(q))
    /\ city = CitySentinel(view) \/ OrEmpty(r, "city") = city
    /\ status = StatusSentinel(view) \/ r.status = status

Range(arr) == {arr[i] : i \in DOMAIN arr}

\* C18: the projected list holds exactly the cache rows that contain the trimmed
\* search text, whatever its case, in the text of name, city, emails, phones and
\* address (or the search text is blank), whose city is the selected one unless
\* the sentinel is selected, and whose status is the selected one unless the
\* sentinel is selected; each such row once.
C18_SearchAndFilters ==
    /\ Range(filtered) = {r \in Range(rows) : PassesFilters(r)}
    /\ Cardinality(Range(filtered)) = Len(filtered)

\* the order of two rows by a key, ascending: negative, zero or positive
KeyOrder(v, key, a, b) ==
    IF key = "name"
    THEN (IF v = "page" THEN localeCompare(OrEmpty(a, "name"), OrEmpty(b, "name"))
          ELSE LexCompare(a.name, b.name, CodeUnit))
    ELSE IF key = "created_at" THEN Time(a) - Time(b)
    ELSE a.score - b.score

CachePosition(rs, r) == CHOOSE i \in DOMAIN rs : rs[i] = r

\* the list is in the order of the key in the direction, rows with equal keys in
\* the order of the cache
OrderedBy(list, rs, v, key, dir) ==
    \A i, j \in DOMAIN list :
        i < j =>
            LET o == IF dir = "asc" THEN KeyOrder(v, key, list[i], list[j])
                     ELSE KeyOrder(v, key, list[j], list[i])
            IN  /\ o <= 0
                /\ o = 0 => CachePosition(rs, list[i]) < CachePosition(rs, list[j])

\* C19 as claimed: the projected list is ordered by name or by created_at in the
\* chosen direction, rows with equal keys in cache order.
C19_SortedByNameOrDate ==
    \/ OrderedBy(filtered, rows, view, "name", sortDir)
    \/ OrderedBy(filtered, rows, view, "created_at", sortDir)

ViewSorted == OrderedBy(filtered, rows, view, sortKey, sortDir)

\* C19 as amended: the projected list is ordered by the selected key in the
\* chosen direction, descending being the reverse comparison; the key is name in
\* the Page (compared by localeCompare; no control selects created_at) and score
\* or name in the Home (compared by > on the values); rows with equal keys keep
\* their cache order, and no change of the controls changes the cache.
C19_SortedBySelectedKey ==
    /\ ViewSorted
    /\ sortKey \in (IF view = "page" THEN {"name"} ELSE {"score", "name"})
    /\ [][rows' = rows /\ ViewSorted']_vars

\* the Name header of the Page has turned the sort to descending: every cache
\* row is in the list, in another order than in the cache, two of them with
\* equal names
C19_Witness ==
    /\ view = "page" /\ sortDir = "desc"
    /\ Len(filtered) = Len(rows) /\ filtered # rows
    /\ \E i, j \in DOMAIN filtered :
          i < j /\ KeyOrder(view, sortKey, filtered[i], filtered[j]) = 0

NoStoreCall == ~request'.pending /\ db' = db

\* C14: PATCH with a parsable body in which id is absent, updates is absent or
\* updates has no keys answers 400 "Missing id or updates" and sends no update
\* to the store, whatever the configuration of the server.
C14_MissingAnswers400 ==
    [][\A body \in Bodies :
          (/\ PATCH(body)
           /\ body.valid
           /\ ("id" \notin body.has \/ "updates" \notin body.has \/ body.updates.keys = {}))
          => /\ response' = Json(400, ErrorBody("Missing id or updates"))
             /\ NoStoreCall]_vars

\* C15: PATCH with a body that is not valid JSON answers 400 "Invalid JSON body"
\* and sends no update to the store.
C15_InvalidJsonAnswers400 ==
    [][\A body \in Bodies :
          (PATCH(body) /\ ~body.valid)
          => /\ response' = Json(400, ErrorBody("Invalid JSON body"))
             /\ NoStoreCall]_vars

\* C16: GET answers 200 with {ok: true, route: "hospitals"}, calls nothing and
\* creates nothing, whatever the environment of the server.
C16_GetAlwaysOk ==
    [][GET =>
          /\ response' = Json(200, [ok |-> TRUE, route |-> "hospitals"])
          /\ NoStoreCall
          /\ serverClient' = serverClient]_vars

\* GET has answered on a server that has no service key and no client
C16_Witness ==
    /\ response = Json(200, [ok |-> TRUE, route |-> "hospitals"])
    /\ ~env.key /\ ~serverClient

OnlyRowChanged(id) == \A x \in Ids : x # id => db'[x] = db[x]

\* C17 as claimed: for a valid request, a store error gives 500 with the
\* message of the error, and a successful update gives 200 with the updated row
\* as data, the update touching the row of the given id only.
C17_UpdatedRowReturned ==
    [][\A r \in Outcomes :
          PATCHReturn(r) =>
              /\ r = "error" => response' = Json(500, ErrorBody("store error"))
              /\ r = "ok" =>
                    /\ response' = Json(200, DataBody("row", <<Selected(db', request.id)>>))
                    /\ db'[request.id].live
                    /\ OnlyRowChanged(request.id)]_vars

\* C17 as amended: for a valid request, a store error or an exception of the
\* store call gives 500 with its message; a successful update gives 200 with
\* the updated row as data when a row has the given id, and with the empty
\* array the store returned when none has; the update sets the given
\* properties on the row of the given id and touches no other row.
C17_RowOrEmptyArray ==
    [][\A r \in Outcomes :
          PATCHReturn(r) =>
              /\ r = "error" => response' = Json(500, ErrorBody("store error"))
              /\ r = "throw" => response' = Json(500, ErrorBody("exception"))
              /\ r # "ok" => db' = db
              /\ r = "ok" =>
                    /\ response' = Json(200, IF db[request.id].live
                                             THEN DataBody("row", <<Selected(db', request.id)>>)
                                             ELSE DataBody("array", <<>>))
                    /\ OnlyRowChanged(request.id)
                    /\ db[request.id].live =>
                          \A f \in request.updates.keys :
                              db'[request.id][f] = request.updates[f]]_vars

\* a valid PATCH for an id that no row has was answered 200 with an empty array
C17_Witness ==
    /\ response = Json(200, DataBody("array", <<>>))
    /\ ~request.pending

\* C11: score is a function of manual_rating: every record of the cache has
\* score = manual_rating * 20 (rounded to two decimals), whatever setRating,
\* updateRow and the PATCH route have done.
C11_ScoreFollowsRating ==
    \A i \in DOMAIN rows : rows[i].score = blendScore(0, rows[i].manual_rating)

\* the named records among those the import has not handled yet
NamedLeft == {k \in DOMAIN csv : csv[k].named}

\* C13: the import inserts the named records one by one in input order; when
\* the insert of a record is over, with or without a failure, the next named
\* record is inserted, and after the last one fetchRows is started once; when
\* that reload is over the import completes.
C13_ImportGoesOn ==
    [][\A i \in 1..MaxTasks :
          /\ importCSVReturn(i) =>
                /\ Len(tasks') = Len(tasks)
                /\ IF NamedLeft # {}
                   THEN /\ tasks'[i].kind = "importCSV" /\ tasks'[i].pc = "sent"
                        /\ \E k \in NamedLeft :
                              /\ \A o \in NamedLeft : k <= o
                              /\ tasks'[i].current = csv[k].line
                   ELSE StartsReload(i)
          /\ importCSVFetchReturn(i) =>
                resolved' = "resolved" /\ tasks' = Remove(tasks, i)]_vars

\* C21: when the primary channel subscription throws, the legacy subscription
\* is attempted and, if it succeeds, held; when both throw, no subscription and
\* no handle is held, no toast is pushed, the cache of the first load is kept
\* and nothing else changes; a manual refresh of a view without subscription
\* still replaces the cache by what its select returns.
C21_SubscribeBestEffort ==
    [][/\ Subscribe("legacy") => subscribed' /\ channelRef' = "handle"
       /\ Subscribe("none") =>
             /\ ~subscribed' /\ channelRef' = "none"
             /\ out' = <<>>
             /\ rows' = rows /\ loading' = loading /\ tasks' = tasks
       /\ \A i \in 1..MaxTasks :
             (/\ fetchRowsReturn(i)
              /\ tasks[i].owner = "refresh" /\ tasks[i].res = "ok"
              /\ ~subscribed /\ effect = "done")
                => rows' = tasks[i].data /\ ~loading']_vars

\* both attempts have thrown, and a manual refresh is about to replace a cache
\* that differs from what its select returned
C21_Witness ==
    /\ view = "page"
    /\ mounted /\ effect = "done" /\ channelRef = "none" /\ ~subscribed
    /\ \E i \in DOMAIN tasks :
          /\ tasks[i].kind = "fetch" /\ tasks[i].owner = "refresh"
          /\ tasks[i].pc = "replied" /\ tasks[i].res = "ok"
          /\ tasks[i].data # rows

\* the field a mutation patches
PatchedField(kind) == IF kind \in ColdMutations THEN "cold_emailed" ELSE "status"

IdsOf(rs) == [k \in DOMAIN rs |-> rs[k].id]

\* after is before with at most the given fields of the entries of ids changed
SameExcept(after, before, ids, fields) ==
    /\ IdsOf(after) = IdsOf(before)
    /\ \A k \in DOMAIN before :
          \A f \in DOMAIN before[k] :
             (before[k].id \notin ids \/ f \notin fields) => after[k][f] = before[k][f]

\* a mutation handler runs up to its first await
MutationStarts ==
    \/ \E id \in Ids : toggleStatus(id) \/ toggleColdEmail(id)
    \/ \E target \in {"closed"} : bulkSetStatus(target)
    \/ \E markAs \in {"true", "false"} : bulkToggleColdEmail(markAs)
    \/ \E id \in Ids, s \in HomeStatusInputs : updateRow(id, s)

\* the continuation of a Page mutation runs
PageMutationReturns(i) ==
    \/ toggleStatusReturn(i)
    \/ toggleColdEmailReturn(i)
    \/ bulkSetStatusReturn(i)
    \/ bulkToggleColdEmailReturn(i)
    \/ \E r \in Outcomes : auditReturn(i, r)

\* the optimistic write touches the patched field of the ids of the call
OptimisticKeepsFrame ==
    MutationStarts =>
        IF Len(tasks') > Len(tasks)
        THEN LET t == tasks'[Len(tasks')]
             IN  SameExcept(rows', rows, t.ids, {PatchedField(t.kind)})
        ELSE rows' = rows

\* the id sequence of the cache changes only when a load or an insert ends
IdsChangeByLoadOrInsert ==
    IdsOf(rows') # IdsOf(rows) =>
        \E i \in 1..MaxTasks :
           fetchRowsReturn(i) \/ HomeFetchRowsReturn(i) \/ addHospitalReturn(i)

\* C22: no mutation, in its optimistic write, its success handling or its
\* rollback, adds, removes or reorders cache entries or changes a field other
\* than the patched one of the targeted ids; the id sequence of the cache
\* changes only through a load or an insert.
C22_OnlyPatchedField ==
    [][/\ OptimisticKeepsFrame
       /\ \A i \in 1..MaxTasks :
             (PageMutationReturns(i) \/ updateRowReturn(i)) =>
                SameExcept(rows', rows, tasks[i].ids, {PatchedField(tasks[i].kind)})
       /\ IdsChangeByLoadOrInsert]_vars

\* C22 as the code has it: the mutations of the Page change only the patched
\* field of the targeted ids; updateRow writes nothing before its call and on
\* success replaces the targeted entry by the row the store returned, other
\* fields included; no mutation changes the id sequence of the cache or an
\* entry it does not target, and the id sequence changes only through a load
\* or an insert.
C22_FrameOfMutations ==
    [][/\ OptimisticKeepsFrame
       /\ \A i \in 1..MaxTasks :
             /\ PageMutationReturns(i) =>
                   SameExcept(rows', rows, tasks[i].ids, {PatchedField(tasks[i].kind)})
             /\ updateRowReturn(i) =>
                   /\ SameExcept(rows', rows, tasks[i].ids, {"status", "cold_emailed"})
                   /\ tasks[i].res = "ok" =>
                         \A k \in DOMAIN rows :
                            rows[k].id \in tasks[i].ids => rows'[k] = tasks[i].data[1]
                   /\ tasks[i].res # "ok" => rows' = rows
       /\ IdsChangeByLoadOrInsert]_vars

\* an updateRow is about to bring back a row whose other field differs from
\* the cache entry it replaces
C22_Witness ==
    /\ view = "home"
    /\ \E i \in DOMAIN tasks :
          /\ tasks[i].kind = "updateRow" /\ tasks[i].pc = "replied"
          /\ tasks[i].res = "ok"
          /\ \E k \in DOMAIN rows :
                /\ rows[k].id \in tasks[i].ids
                /\ rows[k].cold_emailed # tasks[i].data[1].cold_emailed

\* the number of cache entries with value v in field f
Count(f, v) == Cardinality({k \in DOMAIN rows : rows[k][f] = v})

\* C23: in every reachable state of the Page, total is the number of cache
\* rows, closed the number of rows whose status is closed or reached, open is
\* total - closed, and the cold-emailed counter is 0 when the schema-feature
\* flag is false and otherwise the number of rows with cold_emailed true; the
\* counters follow the cache, whatever the filtered view holds.
C23_Counters ==
    view = "page" =>
        /\ totals.total = Cardinality(DOMAIN rows)
        /\ totals.closed = Count("status", "closed") + Count("status", "reached")
        /\ totals.open = totals.total - totals.closed
        /\ totals.open + totals.closed = Len(rows)
        /\ ~hasColdEmailedColumn => totals.emailed = 0
        /\ hasColdEmailedColumn => totals.emailed = Count("cold_emailed", "true")

\* two cached rows, one reached and one closed, one of them cold-emailed, with
\* the flag set
C23_Witness ==
    /\ view = "page" /\ hasColdEmailedColumn
    /\ Len(rows) = 2
    /\ Count("status", "reached") = 1 /\ Count("status", "closed") = 1
    /\ Count("cold_emailed", "true") = 1

\* a load is in flight: fetchRows has been called and has not finished
LoadInFlight == \E i \in DOMAIN tasks : tasks[i].kind = "fetch"

\* C24: once the component has started, the loading indicator is true in every
\* state in which a load is in flight and false in every state in which none
\* is, overlapping loads included.
C24_LoadingTracksLoads == effect # "idle" => (loading <=> LoadInFlight)

\* a bulk handler is invoked
BulkStarts ==
    \/ \E target \in {"closed"} : bulkSetStatus(target)
    \/ \E markAs \in {"true", "false"} : bulkToggleColdEmail(markAs)

\* rs with field f of the entries of ids set to v
Patch(rs, ids, f, v) ==
    [k \in DOMAIN rs |-> IF rs[k].id \in ids THEN [rs[k] EXCEPT ![f] = v] ELSE rs[k]]

\* C25: a bulk mutation takes the ids selected when it is invoked: its
\* optimistic write patches exactly those entries and its remote update changes
\* exactly those rows, whatever the selection is when the store serves it; with
\* an empty selection it makes no store call and leaves the cache unchanged;
\* the selection is cleared when the mutation ends in success and left as it
\* is when the update fails.
C25_BulkUsesSelectionAtCall ==
    [][/\ BulkStarts =>
             IF selected = {}
             THEN tasks' = tasks /\ rows' = rows
             ELSE IF Len(tasks') > Len(tasks)
             THEN LET t == tasks'[Len(tasks')]
                  IN  /\ t.ids = selected /\ t.pc = "sent"
                      /\ rows' = Patch(rows, selected, PatchedField(t.kind), t.target)
             ELSE tasks' = tasks /\ rows' = rows
       /\ \A i \in 1..MaxTasks :
             /\ ((\E r \in Outcomes : ServeUpdate(i, r)) /\ tasks[i].kind \in BulkMutations) =>
                   \A id \in Ids :
                      IF tasks'[i].res = "ok" /\ id \in tasks[i].ids /\ db[id].live
                      THEN db'[id] = [db[id] EXCEPT ![PatchedField(tasks[i].kind)] =
                                                       tasks[i].target]
                      ELSE db'[id] = db[id]
             /\ (bulkSetStatusReturn(i) /\ ~Failed(i)) => selected' = {}
             /\ ((\E r \in Outcomes : auditReturn(i, r))
                    /\ tasks[i].kind = "bulkToggleColdEmail") => selected' = {}
             /\ ((bulkSetStatusReturn(i) \/ bulkToggleColdEmailReturn(i)) /\ Failed(i)) =>
                   selected' = selected]_vars

\* the store has applied a bulk update whose ids are no longer the selection
C25_Witness ==
    \E i \in DOMAIN tasks :
       /\ tasks[i].kind \in BulkMutations
       /\ tasks[i].pc = "replied" /\ tasks[i].res = "ok"
       /\ selected # {} /\ tasks[i].ids # selected
       /\ \A id \in tasks[i].ids : db[id][PatchedField(tasks[i].kind)] = tasks[i].target
       /\ \E id \in selected \ tasks[i].ids :
             db[id][PatchedField(tasks[i].kind)] # tasks[i].target

\* the statuses a double toggle gives back
Restorable == {"new", "closed"}

\* two toggles of one record, the second passed the status the first wrote,
\* both answered with success
DoubleToggle(i, j) ==
    /\ i < j
    /\ tasks[i].kind = "toggleStatus" /\ tasks[j].kind = "toggleStatus"
    /\ tasks[i].ids = tasks[j].ids
    /\ tasks[j].current = tasks[i].target
    /\ tasks[i].pc = "replied" /\ tasks[i].res = "ok"
    /\ tasks[j].pc = "replied" /\ tasks[j].res = "ok"

\* C26: toggleStatus writes 'new' when the status passed in is 'closed' and
\* 'closed' for every other status, null and 'reached' included, to the cache
\* and, on success, to the store; hence a second toggle of the status the
\* first wrote gives back the original status exactly when that status was
\* 'new' or 'closed'.
C26_ToggleStatus ==
    [][/\ \A id \in Ids :
             toggleStatus(id) =>
                LET passed == Find(rows, id).status
                    t == tasks'[Len(tasks')]
                IN  /\ t.kind = "toggleStatus" /\ t.ids = {id} /\ t.current = passed
                    /\ passed = "closed" => t.target = "new"
                    /\ passed # "closed" => t.target = "closed"
                    /\ Find(rows', id).status = t.target
                    /\ StatusTarget(t.target) = passed <=> passed \in Restorable
       /\ \A i \in 1..MaxTasks :
             /\ ((\E r \in Outcomes : ServeUpdate(i, r))
                    /\ tasks[i].kind = "toggleStatus" /\ tasks'[i].res = "ok") =>
                   \A id \in tasks[i].ids : db'[id].status = tasks[i].target
             /\ (toggleStatusReturn(i) /\ ~Failed(i)) => rows' = rows
       /\ \A i, j \in DOMAIN tasks' :
             (i < j /\ DoubleToggle(i, j)') =>
                (tasks'[j].target = tasks'[i].current <=> tasks'[i].current \in Restorable)]_vars

\* two successive toggles of a record that was 'reached' have both succeeded and
\* left it 'new'
C26_Witness ==
    \E i, j \in DOMAIN tasks :
       /\ i < j /\ DoubleToggle(i, j)
       /\ tasks[i].current = "reached" /\ tasks[j].target = "new"
       /\ \A id \in tasks[i].ids : db[id].status = "new" /\ Find(rows, id).status = "new"
====
